---- MODULE Spec2Model ----
(***************************************************************************)
(* ConnectHub: the storage layer (document backend server/db.ts with the   *)
(* Mongoose schemas, relational backend server/storage.ts) and the HTTP    *)
(* routes that sit on top of it.                                           *)
(*                                                                         *)
(* Strings that the code takes apart (path parameters handed to parseInt,  *)
(* ObjectId hex strings) are sequences of character codes: 0..9 are the    *)
(* digits, 10..15 the letters a..f, 23 the letter N.                       *)
(***************************************************************************)
EXTENDS Bags, FiniteSets, Integers, Sequences, TLC

VARIABLES
    backend,      \* "mongo" (server/db.ts) or "pg" (server/storage.ts)
    users,        \* user rows / documents
    posts,        \* post rows / documents
    follows,      \* bag of follow edges  [followerId, followingId]
    likes,        \* bag of like edges    [userId, postId]
    comments,     \* comment rows / documents
    nextPost,     \* posts created so far (serial / ObjectId generator)
    nextComment,  \* comments created so far
    clock,        \* current time, the source of createdAt
    inflight,     \* requests that have started and not yet answered
    last,         \* the observable outcome of the last completed call
    session,      \* req.session.user of the one browser session: an id or None
    secrets,      \* the password each account's owner typed at signup
    isConnected,  \* server/db.ts: the module's isConnected flag
    calls,        \* where each call of ensureDatabaseReady stands
    connects,     \* mongoose.connect: invocations started, failed
    followButton, \* one FollowButton: its state, its mutation, its parent
    likeButton,   \* one LikeButton: its state and its mutation
    debounce      \* one useDebouncedValue: input, timer, returned value

\* The state outside the store and its requests.
auth == <<session, secrets>>
dbconn == <<isConnected, calls, connects>>
widgets == <<followButton, likeButton, debounce>>
elsewhere == <<auth, dbconn, widgets>>
store == <<backend, users, posts, follows, likes, comments,
           nextPost, nextComment, clock, inflight>>

vars == <<backend, users, posts, follows, likes, comments,
          nextPost, nextComment, clock, inflight, last, elsewhere>>

----------------------------------------------------------------------------
(* Bounds of the model *)

MaxPosts == 2
MaxFeedPosts == 3
MaxComments == 1
MaxClock == 2
MaxEdges == 2
MaxUsers == 3
MaxCrowd == 26
MaxQueryLen == 2
MaxGuardedPosts == 1

Backends == {"mongo", "pg"}
UserIds == {"u1", "u2", "u3"}
GhostUserId == "u9"
None == "none"
NoCall == [op |-> "init"]

\* The calls of ensureDatabaseReady that the model follows.
Callers == {1, 2, 3}

\* A component that has not rendered yet.
Unmounted == [mounted |-> FALSE]

\* No browser session, no account, no connection and no component yet.
Quiet ==
    /\ session = "none"
    /\ secrets = {}
    /\ isConnected = FALSE
    /\ calls = [c \in Callers |-> "idle"]
    /\ connects = [started |-> 0, failed |-> 0]
    /\ followButton = Unmounted
    /\ likeButton = Unmounted
    /\ debounce = Unmounted

----------------------------------------------------------------------------
(* Identifiers and their conversions *)

NaN == -1

IsDigit(c) == c \in 0..9

RECURSIVE DigitPrefix(_)
DigitPrefix(s) ==
    IF s = <<>> \/ ~IsDigit(Head(s)) THEN <<>>
    ELSE <<Head(s)>> \o DigitPrefix(Tail(s))

RECURSIVE DigitsValue(_)
DigitsValue(s) ==
    IF s = <<>> THEN 0
    ELSE 10 * DigitsValue(SubSeq(s, 1, Len(s) - 1)) + s[Len(s)]

\* parseInt(req.params.id): the value of the leading decimal digits, NaN when
\* the string does not start with a digit.
parseInt(s) ==
    IF DigitPrefix(s) = <<>> THEN NaN ELSE DigitsValue(DigitPrefix(s))

RECURSIVE NumToStr(_)
NumToStr(n) ==
    IF n < 10 THEN <<n>> ELSE NumToStr(n \div 10) \o <<n % 10>>

\* Mongoose casts a number given for a String path with toString().
castString(n) == IF n = NaN THEN <<23, 10, 23>> ELSE NumToStr(n)

\* The n-th ObjectId the document backend hands out, as a (shortened) hex
\* string: ids made at about the same time share their leading characters.
ObjectId(n) ==
    IF n % 3 = 0 THEN <<10, n % 10>> ELSE <<6, 10 + (n % 6)>>

\* The id of the n-th row: a serial integer, or an ObjectId string.
NewId(n) == IF backend = "pg" THEN n ELSE ObjectId(n)

\* `${post.id}` as the client puts it into a path.
IdToPath(id) == IF backend = "pg" THEN NumToStr(id) ELSE id

----------------------------------------------------------------------------
(* Store: users *)

UserRow(id, email, username) ==
    [id |-> id, email |-> email, username |-> username, createdAt |-> 0]

SeedUsers ==
    { UserRow("u1", "e1", "n1"), UserRow("u2", "e2", "n2"),
      UserRow("u3", "e3", "n3") }

ExistingIds == { u.id : u \in users }

getUser(id) == { u \in users : u.id = id }

getUserByEmail(email) == { u \in users : u.email = email }

getUserByUsername(username) == { u \in users : u.username = username }

\* The id given to the n-th user created (an ObjectId / a generated key).
NewUserId(n) == <<"u1", "u2", "u3", "u4">>[n]

\* MongoDB's duplicate-key error for a unique index (error.code 11000).
MongoDuplicateKey == "11000"

\* PostgreSQL's unique_violation, the code the routes test for.
PgUniqueViolation == "23505"

PgForeignKeyViolation == "23503"

UniqueViolation ==
    IF backend = "pg" THEN PgUniqueViolation ELSE MongoDuplicateKey

UserIndexRejects_NoIndex(id, email, username) == FALSE

\* userSchema.index({email: 1}, {unique: true, sparse: true}) and the same
\* for username; the relational schema's unique columns.
UserIndexRejects(id, email, username) ==
    \E u \in users : u.id # id /\ (u.email = email \/ u.username = username)

\* upsertUser(userData) without an id: UserModel.create / insert.
upsertUser(email, username) ==
    IF UserIndexRejects(None, email, username)
    THEN [ok |-> FALSE, code |-> UniqueViolation, users |-> users]
    ELSE [ok |-> TRUE, code |-> None,
          users |-> users \cup
              {UserRow(NewUserId(Cardinality(users) + 1), email, username)}]

\* updateUser(id, {username}): findByIdAndUpdate / update ... where id.
updateUser(id, username) ==
    LET hit == getUser(id) IN
    IF \E u \in hit : UserIndexRejects(id, u.email, username)
    THEN [ok |-> FALSE, code |-> UniqueViolation, users |-> users]
    ELSE [ok |-> TRUE, code |-> None,
          users |-> (users \ hit) \cup
              { [u EXCEPT !.username = username] : u \in hit }]

----------------------------------------------------------------------------
(* Store: uniqueness and references *)

\* followSchema.index({followerId: 1, followingId: 1}, {unique: true}); the
\* relational schema's constraint on follows(follower_id, following_id).
FollowIndexRejects(e) == CopiesIn(e, follows) >= 1

\* The relational schema's user references; the document schema's `ref` is
\* not enforced by the database.
PgUserReferenceFails(id) == backend = "pg" /\ id \notin ExistingIds

----------------------------------------------------------------------------
(* Store: follow operations *)

Edge(a, b) == [followerId |-> a, followingId |-> b]

followUser_Reversed(followerId, followingId) ==
    IF FollowIndexRejects(Edge(followingId, followerId))
    THEN [ok |-> FALSE, code |-> UniqueViolation, follows |-> follows]
    ELSE [ok |-> TRUE, code |-> None,
          follows |-> follows (+) SetToBag({Edge(followingId, followerId)})]

followUser(followerId, followingId) ==
    IF PgUserReferenceFails(followerId) \/ PgUserReferenceFails(followingId)
    THEN [ok |-> FALSE, code |-> PgForeignKeyViolation, follows |-> follows]
    ELSE IF FollowIndexRejects(Edge(followerId, followingId))
    THEN [ok |-> FALSE, code |-> UniqueViolation, follows |-> follows]
    ELSE [ok |-> TRUE, code |-> None,
          follows |-> follows (+) SetToBag({Edge(followerId, followingId)})]

unfollowUser(followerId, followingId) ==
    IF BagIn(Edge(followerId, followingId), follows)
    THEN [ret |-> TRUE,
          follows |-> follows (-) SetToBag({Edge(followerId, followingId)})]
    ELSE [ret |-> FALSE, follows |-> follows]

isFollowing(followerId, followingId) ==
    BagIn(Edge(followerId, followingId), follows)

\* FollowModel.find({followerId}).distinct("followingId")
FollowingIds(userId) ==
    { e.followingId : e \in { x \in BagToSet(follows) : x.followerId = userId } }

----------------------------------------------------------------------------
(* Store: posts *)

\* What the stored imageUrl becomes for a request value "undef" (absent),
\* "null" or a URL.  db.ts passes `imageUrl || undefined`.
StoredImage(imageUrl) ==
    IF imageUrl \in {"undef", "null"} THEN None ELSE imageUrl

PostRow(id, userId, content, imageUrl) ==
    [id |-> id, userId |-> userId, content |-> content,
     imageUrl |-> StoredImage(imageUrl), createdAt |-> clock,
     userId0 |-> userId, content0 |-> content,
     imageUrl0 |-> StoredImage(imageUrl), editedBy |-> {}]

\* postSchema: content {type: String, required: true} rejects "".
MongoRequiredFails(content) == backend = "mongo" /\ content = 0

createPost(userId, content, imageUrl) ==
    IF PgUserReferenceFails(userId)
    THEN [ok |-> FALSE, code |-> PgForeignKeyViolation, posts |-> posts]
    ELSE IF MongoRequiredFails(content)
    THEN [ok |-> FALSE, code |-> "ValidationError", posts |-> posts]
    ELSE [ok |-> TRUE, code |-> None,
          posts |-> posts \cup
              {PostRow(NewId(nextPost + 1), userId, content, imageUrl)}]

\* .sort({createdAt: -1}) / orderBy(desc(posts.createdAt)): every order of
\* the rows that is non-increasing in createdAt (ties fall either way).
SortNewestFirst(S) ==
    { s \in [1..Cardinality(S) -> S] :
        /\ \A i, j \in 1..Cardinality(S) : i # j => s[i] # s[j]
        /\ \A i, j \in 1..Cardinality(S) :
              i < j => s[i].createdAt >= s[j].createdAt }

Min(a, b) == IF a < b THEN a ELSE b

\* .limit(limit).skip(offset) / .limit(limit).offset(offset)
Page(s, limit, offset) == SubSeq(s, offset + 1, Min(Len(s), offset + limit))

AuthorExists(p) == p.userId \in ExistingIds

\* The rows of a listing: the document backend drops posts whose author is
\* missing after paging, the relational one joins users before paging.
Listing(S, limit, offset) ==
    IF backend = "pg"
    THEN { Page(s, limit, offset) :
             s \in SortNewestFirst({ p \in S : AuthorExists(p) }) }
    ELSE { SelectSeq(Page(s, limit, offset), AuthorExists) :
             s \in SortNewestFirst(S) }

FeedAuthorIds_FollowedOnly(userId) == FollowingIds(userId)

\* followingIds.push(userId): the viewer's own posts are part of the feed.
FeedAuthorIds(userId) == FollowingIds(userId) \cup {userId}

\* getFeedPosts(userId, limit, offset): the possible results.
getFeedPosts(userId, limit, offset) ==
    Listing({ p \in posts : p.userId \in FeedAuthorIds(userId) }, limit, offset)

----------------------------------------------------------------------------
(* Store: post update and delete *)

PostsWithId(id) == { p \in posts : p.id = id }

\* set({content, imageUrl}) skips an undefined imageUrl and stores null;
\* `imageUrl || undefined` turns null into undefined, which the update omits.
UpdatedImage(old, imageUrl) ==
    IF imageUrl = "undef" THEN old
    ELSE IF imageUrl = "null"
    THEN (IF backend = "pg" THEN None ELSE old)
    ELSE imageUrl

\* findOneAndUpdate({_id: id, userId}, ...) / update ... where id and userId
updatePost(id, userId, content, imageUrl) ==
    LET hit == { p \in PostsWithId(id) : p.userId = userId } IN
    IF hit = {} THEN [found |-> FALSE, posts |-> posts]
    ELSE [found |-> TRUE,
          posts |-> (posts \ hit) \cup
              { [p EXCEPT !.content = content,
                          !.imageUrl = UpdatedImage(p.imageUrl, imageUrl),
                          !.editedBy = p.editedBy \cup {userId}] : p \in hit }]

BagWithout(B, gone) ==
    [e \in { x \in BagToSet(B) : ~gone[x] } |-> B[e]]

\* What the relational schema removes with a post: the likes and comments
\* that reference it.  The document backend removes the post alone.
PgCascade(id) ==
    [likes |-> IF backend = "pg"
               THEN BagWithout(likes, [e \in BagToSet(likes) |-> e.postId = id])
               ELSE likes,
     comments |-> IF backend = "pg"
                  THEN { c \in comments : c.postId # id }
                  ELSE comments]

\* findOneAndDelete({_id: id, userId}) / delete ... where id and userId
deletePost(id, userId) ==
    LET hit == { p \in PostsWithId(id) : p.userId = userId } IN
    IF hit = {}
    THEN [ret |-> FALSE, posts |-> posts, likes |-> likes,
          comments |-> comments]
    ELSE [ret |-> TRUE, posts |-> posts \ hit,
          likes |-> PgCascade(id).likes, comments |-> PgCascade(id).comments]

----------------------------------------------------------------------------
(* Store: likes *)

Like(userId, postId) == [userId |-> userId, postId |-> postId]

\* likeSchema.index({userId: 1, postId: 1}, {unique: true})
LikeIndexRejects(e) == CopiesIn(e, likes) >= 1

PgPostReferenceFails(postId) ==
    backend = "pg" /\ PostsWithId(postId) = {}

likePost(userId, postId) ==
    IF PgUserReferenceFails(userId) \/ PgPostReferenceFails(postId)
    THEN [ok |-> FALSE, code |-> PgForeignKeyViolation, likes |-> likes]
    ELSE IF LikeIndexRejects(Like(userId, postId))
    THEN [ok |-> FALSE, code |-> UniqueViolation, likes |-> likes]
    ELSE [ok |-> TRUE, code |-> None,
          likes |-> likes (+) SetToBag({Like(userId, postId)})]

unlikePost_WholePost(userId, postId) ==
    IF BagIn(Like(userId, postId), likes)
    THEN [ret |-> TRUE,
          likes |-> BagWithout(likes,
                       [e \in BagToSet(likes) |-> e.postId = postId])]
    ELSE [ret |-> FALSE, likes |-> likes]

\* findOneAndDelete({userId, postId})
unlikePost(userId, postId) ==
    IF BagIn(Like(userId, postId), likes)
    THEN [ret |-> TRUE,
          likes |-> likes (-) SetToBag({Like(userId, postId)})]
    ELSE [ret |-> FALSE, likes |-> likes]

isLikedIn(B, userId, postId) == BagIn(Like(userId, postId), B)

\* A flag that is set when anyone likes the post.
isLiked_AnyUser(userId, postId) ==
    \E e \in BagToSet(likes) : e.postId = postId

isLiked(userId, postId) == isLikedIn(likes, userId, postId)

\* countDocuments({postId}) / count(*) where post_id = postId
LikesCountIn(B, postId) ==
    BagCardinality(BagWithout(B, [e \in BagToSet(B) |-> e.postId # postId]))

getLikesCount(postId) == LikesCountIn(likes, postId)

----------------------------------------------------------------------------
(* Store: comments *)

CommentRow(id, userId, postId, content) ==
    [id |-> id, userId |-> userId, postId |-> postId, content |-> content,
     createdAt |-> clock]

createComment(userId, postId, content) ==
    IF PgUserReferenceFails(userId) \/ PgPostReferenceFails(postId)
    THEN [ok |-> FALSE, code |-> PgForeignKeyViolation, comments |-> comments]
    ELSE IF MongoRequiredFails(content)
    THEN [ok |-> FALSE, code |-> "ValidationError", comments |-> comments]
    ELSE [ok |-> TRUE, code |-> None,
          comments |-> comments \cup
              {CommentRow(NewId(nextComment + 1), userId, postId, content)}]

\* findOneAndDelete({_id: id, userId}) / delete ... where id and userId
deleteComment(id, userId) ==
    LET hit == { c \in comments : c.id = id /\ c.userId = userId } IN
    IF hit = {} THEN [ret |-> FALSE, comments |-> comments]
    ELSE [ret |-> TRUE, comments |-> comments \ hit]

\* A count that ignores which post a comment is on.
getCommentsCount_AllPosts(postId) == Cardinality(comments)

getCommentsCount(postId) ==
    Cardinality({ c \in comments : c.postId = postId })

----------------------------------------------------------------------------
(* Direct calls of the storage interface (IStorage).  A caller that keeps  *)
(* the result (watch) leaves it in `last`; one that drops it leaves        *)
(* nothing behind.                                                         *)

DefaultLimit == 50
CallPages == { <<DefaultLimit, 0>>, <<1, 0>>, <<1, 1>> }

Kept(watch, result) == IF watch THEN result ELSE NoCall

Tick ==
    /\ clock < MaxClock
    /\ clock' = clock + 1
    /\ UNCHANGED <<elsewhere, backend, users, posts, follows, likes, comments,
                   nextPost, nextComment, inflight, last>>

Call_followUser(a, b, watch) ==
    LET r == followUser(a, b) IN
    /\ r.ok => BagCardinality(follows) < MaxEdges
    /\ follows' = r.follows
    /\ last' = Kept(watch, [op |-> "followUser", a |-> a, b |-> b,
                            ok |-> r.ok, code |-> r.code, pre |-> follows])
    /\ UNCHANGED <<elsewhere, backend, users, posts, likes, comments,
                   nextPost, nextComment, clock, inflight>>

Call_unfollowUser(a, b, watch) ==
    LET r == unfollowUser(a, b) IN
    /\ follows' = r.follows
    /\ last' = Kept(watch,
          [op |-> "unfollowUser", a |-> a, b |-> b, ret |-> r.ret,
           afterFollow |-> /\ last.op = "followUser"
                           /\ last.ok /\ last.a = a /\ last.b = b,
           pre |-> IF last.op = "followUser" THEN last.pre ELSE follows])
    /\ UNCHANGED <<elsewhere, backend, users, posts, likes, comments,
                   nextPost, nextComment, clock, inflight>>

Call_createPost(u, bound) ==
    LET r == createPost(u, 1, "undef") IN
    /\ nextPost < bound
    /\ posts' = r.posts
    /\ nextPost' = IF r.ok THEN nextPost + 1 ELSE nextPost
    /\ last' = NoCall
    /\ UNCHANGED <<elsewhere, backend, users, follows, likes, comments,
                   nextComment, clock, inflight>>

Call_getFeedPosts(v, limit, offset) ==
    /\ \E body \in getFeedPosts(v, limit, offset) :
          last' = [op |-> "getFeedPosts", a |-> v, limit |-> limit,
                   offset |-> offset, body |-> body]
    /\ UNCHANGED <<elsewhere, backend, users, posts, follows, likes, comments,
                   nextPost, nextComment, clock, inflight>>

InitStore ==
    /\ Quiet
    /\ backend \in Backends
    /\ users = SeedUsers
    /\ posts = {}
    /\ follows = EmptyBag
    /\ likes = EmptyBag
    /\ comments = {}
    /\ nextPost = 0
    /\ nextComment = 0
    /\ clock = 1
    /\ inflight = {}
    /\ last = NoCall

\* followUser / unfollowUser / isFollowing called directly.
NextGraph ==
    \/ \E a \in UserIds, b \in UserIds : Call_followUser(a, b, TRUE)
    \/ \E a \in UserIds, b \in UserIds : Call_unfollowUser(a, b, TRUE)

SpecGraph == InitStore /\ [][NextGraph]_vars

\* getFeedPosts over every follow graph and set of posts.
NextFeed ==
    \/ Tick
    \/ \E a \in UserIds, b \in UserIds : Call_followUser(a, b, FALSE)
    \/ \E a \in UserIds, b \in UserIds : Call_unfollowUser(a, b, FALSE)
    \/ \E u \in UserIds : Call_createPost(u, MaxFeedPosts)
    \/ \E v \in UserIds, pg \in CallPages : Call_getFeedPosts(v, pg[1], pg[2])

SpecFeed == InitStore /\ [][NextFeed]_vars

PostIds == { p.id : p \in posts }

Call_likePost(u, postId) ==
    LET r == likePost(u, postId) IN
    /\ likes' = r.likes
    /\ last' = [op |-> "likePost", a |-> u, postId |-> postId,
                ok |-> r.ok, code |-> r.code, pre |-> likes]
    /\ UNCHANGED <<elsewhere, backend, users, posts, follows, comments,
                   nextPost, nextComment, clock, inflight>>

Call_unlikePost(u, postId) ==
    LET r == unlikePost(u, postId) IN
    /\ likes' = r.likes
    /\ last' = [op |-> "unlikePost", a |-> u, postId |-> postId,
                ret |-> r.ret,
                afterLike |-> /\ last.op = "likePost"
                              /\ last.ok /\ last.a = u
                              /\ last.postId = postId,
                pre |-> IF last.op = "likePost" THEN last.pre ELSE likes]
    /\ UNCHANGED <<elsewhere, backend, users, posts, follows, comments,
                   nextPost, nextComment, clock, inflight>>

\* likePost / unlikePost / isLiked / getLikesCount called directly.
NextLikes ==
    \/ \E u \in UserIds : Call_createPost(u, MaxPosts)
    \/ \E u \in UserIds, id \in PostIds : Call_likePost(u, id)
    \/ \E u \in UserIds, id \in PostIds : Call_unlikePost(u, id)

SpecLikes == InitStore /\ [][NextLikes]_vars

----------------------------------------------------------------------------
(* HTTP routes: follow / unfollow *)

\* isAuthenticated: req.session?.user
\* A guard that lets every request through.
isAuthenticated_Always(sess) == TRUE

isAuthenticated(sess) == sess # None

Unauthorized(store0) ==
    [status |-> 401, message |-> "Unauthorized", called |-> FALSE,
     store |-> store0]

FollowRoute_NoSelfCheck(sess, id) ==
    LET r == followUser(sess, id) IN
    IF ~isAuthenticated(sess) THEN Unauthorized(follows)
    ELSE IF r.ok
    THEN [status |-> 200, message |-> "follow", called |-> TRUE,
          store |-> r.follows]
    ELSE IF r.code = "23505"
    THEN [status |-> 400, message |-> "Already following this user",
          called |-> TRUE, store |-> r.follows]
    ELSE [status |-> 500, message |-> "Failed to follow user",
          called |-> TRUE, store |-> r.follows]

\* app.post('/api/users/:id/follow', isAuthenticated, ...)
FollowRoute(sess, id) ==
    LET r == followUser(sess, id) IN
    IF ~isAuthenticated(sess) THEN Unauthorized(follows)
    ELSE IF sess = id
    THEN [status |-> 400, message |-> "Cannot follow yourself",
          called |-> FALSE, store |-> follows]
    ELSE IF r.ok
    THEN [status |-> 200, message |-> "follow", called |-> TRUE,
          store |-> r.follows]
    ELSE IF r.code = "23505"
    THEN [status |-> 400, message |-> "Already following this user",
          called |-> TRUE, store |-> r.follows]
    ELSE [status |-> 500, message |-> "Failed to follow user",
          called |-> TRUE, store |-> r.follows]

\* app.delete('/api/users/:id/follow', isAuthenticated, ...)
UnfollowRoute(sess, id) ==
    LET r == unfollowUser(sess, id) IN
    IF ~isAuthenticated(sess) THEN Unauthorized(follows)
    ELSE IF ~r.ret
    THEN [status |-> 404, message |-> "Follow relationship not found",
          called |-> TRUE, store |-> r.follows]
    ELSE [status |-> 200, message |-> "Unfollowed successfully",
          called |-> TRUE, store |-> r.follows]

PostFollow(sess, id) ==
    LET r == FollowRoute(sess, id) IN
    /\ follows' = r.store
    /\ last' = [op |-> "POST follow", sess |-> sess, id |-> id,
                status |-> r.status, message |-> r.message,
                called |-> r.called,
                existed |-> CopiesIn(Edge(sess, id), follows)]
    /\ UNCHANGED <<elsewhere, backend, users, posts, likes, comments,
                   nextPost, nextComment, clock, inflight>>

DeleteFollow(sess, id) ==
    LET r == UnfollowRoute(sess, id) IN
    /\ follows' = r.store
    /\ last' = [op |-> "DELETE follow", sess |-> sess, id |-> id,
                status |-> r.status, message |-> r.message,
                called |-> r.called]
    /\ UNCHANGED <<elsewhere, backend, users, posts, likes, comments,
                   nextPost, nextComment, clock, inflight>>

Sessions == UserIds \cup {None}
TargetIds == UserIds \cup {GhostUserId}

NextFollowApi ==
    \/ \E sess \in Sessions, id \in TargetIds : PostFollow(sess, id)
    \/ \E sess \in Sessions, id \in TargetIds : DeleteFollow(sess, id)

SpecFollowApi == InitStore /\ [][NextFollowApi]_vars

----------------------------------------------------------------------------
(* HTTP routes: posts, likes, comments *)

ContentMin == 1
ContentMax == 500

\* A schema without the upper bound on content.
ZodIssue_NoMax(content, imageUrl) ==
    IF content < ContentMin
    THEN "String must contain at least 1 character(s)"
    ELSE IF imageUrl = "bad" THEN "Invalid url"
    ELSE None

\* z.object({content: z.string().min(1).max(500),
\*           imageUrl: z.string().url().nullable().optional()}).parse(body):
\* the message of the first issue, None when the body passes.
ZodIssue(content, imageUrl) ==
    IF content < ContentMin
    THEN "String must contain at least 1 character(s)"
    ELSE IF content > ContentMax
    THEN "String must contain at most 500 character(s)"
    ELSE IF imageUrl = "bad" THEN "Invalid url"
    ELSE None

\* parseInt(req.params.id) used as a row id.  The document backend cannot
\* cast a number to the ObjectId of _id; the relational one cannot bind NaN
\* to an integer column.
RowIdArg(param) ==
    IF backend = "mongo" THEN [ok |-> FALSE, id |-> parseInt(param)]
    ELSE IF parseInt(param) = NaN THEN [ok |-> FALSE, id |-> NaN]
    ELSE [ok |-> TRUE, id |-> parseInt(param)]

\* parseInt(req.params.id) used as a postId reference.  The document schema
\* declares postId a String, so the number is stored and queried as text.
RefIdArg(param) ==
    IF backend = "mongo"
    THEN [ok |-> TRUE, id |-> castString(parseInt(param))]
    ELSE IF parseInt(param) = NaN THEN [ok |-> FALSE, id |-> NaN]
    ELSE [ok |-> TRUE, id |-> parseInt(param)]

Reply(status, message, posts1, likes1, comments1) ==
    [status |-> status, message |-> message, posts |-> posts1,
     likes |-> likes1, comments |-> comments1]

Refused(status, message) == Reply(status, message, posts, likes, comments)

\* app.post('/api/posts', isAuthenticated, ...)
CreatePostRoute(sess, content, imageUrl) ==
    LET r == createPost(sess, content, imageUrl) IN
    IF ~isAuthenticated(sess) THEN Refused(401, "Unauthorized")
    ELSE IF ZodIssue(content, imageUrl) # None
    THEN Refused(400, ZodIssue(content, imageUrl))
    ELSE IF ~r.ok THEN Refused(500, "Failed to create post")
    ELSE Reply(201, "post", r.posts, likes, comments)

\* app.put('/api/posts/:id', isAuthenticated, ...)
UpdatePostRoute(sess, param, content, imageUrl) ==
    LET arg == RowIdArg(param)
        r == updatePost(arg.id, sess, content, imageUrl) IN
    IF ~isAuthenticated(sess) THEN Refused(401, "Unauthorized")
    ELSE IF ZodIssue(content, imageUrl) # None
    THEN Refused(400, ZodIssue(content, imageUrl))
    ELSE IF ~arg.ok THEN Refused(500, "Failed to update post")
    ELSE IF ~r.found THEN Refused(404, "Post not found or unauthorized")
    ELSE Reply(200, "post", r.posts, likes, comments)

\* app.delete('/api/posts/:id', isAuthenticated, ...)
DeletePostRoute(sess, param) ==
    LET arg == RowIdArg(param)
        r == deletePost(arg.id, sess) IN
    IF ~isAuthenticated(sess) THEN Refused(401, "Unauthorized")
    ELSE IF ~arg.ok THEN Refused(500, "Failed to delete post")
    ELSE IF ~r.ret THEN Refused(404, "Post not found or unauthorized")
    ELSE Reply(200, "Post deleted successfully", r.posts, r.likes, r.comments)

\* app.post('/api/posts/:id/like', isAuthenticated, ...)
LikeRoute(sess, param) ==
    LET arg == RefIdArg(param)
        r == likePost(sess, arg.id) IN
    IF ~isAuthenticated(sess) THEN Refused(401, "Unauthorized")
    ELSE IF ~arg.ok THEN Refused(500, "Failed to like post")
    ELSE IF r.ok THEN Reply(200, "like", posts, r.likes, comments)
    ELSE IF r.code = "23505" THEN Refused(400, "Already liked this post")
    ELSE Refused(500, "Failed to like post")

\* app.delete('/api/posts/:id/like', isAuthenticated, ...)
UnlikeRoute(sess, param) ==
    LET arg == RefIdArg(param)
        r == unlikePost(sess, arg.id) IN
    IF ~isAuthenticated(sess) THEN Refused(401, "Unauthorized")
    ELSE IF ~arg.ok THEN Refused(500, "Failed to unlike post")
    ELSE IF ~r.ret THEN Refused(404, "Like not found")
    ELSE Reply(200, "Unliked successfully", posts, r.likes, comments)

\* app.post('/api/posts/:id/comments', isAuthenticated, ...)
CreateCommentRoute(sess, param, content) ==
    LET arg == RefIdArg(param)
        r == createComment(sess, arg.id, content) IN
    IF ~isAuthenticated(sess) THEN Refused(401, "Unauthorized")
    ELSE IF ZodIssue(content, "undef") # None
    THEN Refused(400, ZodIssue(content, "undef"))
    ELSE IF ~arg.ok \/ ~r.ok THEN Refused(500, "Failed to create comment")
    ELSE Reply(201, "comment", posts, likes, r.comments)

\* app.delete('/api/comments/:id', isAuthenticated, ...)
DeleteCommentRoute(sess, param) ==
    LET arg == RowIdArg(param)
        r == deleteComment(arg.id, sess) IN
    IF ~isAuthenticated(sess) THEN Refused(401, "Unauthorized")
    ELSE IF ~arg.ok THEN Refused(500, "Failed to delete comment")
    ELSE IF ~r.ret THEN Refused(404, "Comment not found or unauthorized")
    ELSE Reply(200, "Comment deleted successfully", posts, likes, r.comments)

\* The author of the post / comment a path parameter names, None when the
\* parameter names no row.
PostAuthorAt(param) ==
    IF \E p \in posts : IdToPath(p.id) = param
    THEN (CHOOSE p \in posts : IdToPath(p.id) = param).userId
    ELSE None

CommentAuthorAt(param) ==
    IF \E c \in comments : IdToPath(c.id) = param
    THEN (CHOOSE c \in comments : IdToPath(c.id) = param).userId
    ELSE None

Same(r) == r.posts = posts /\ r.likes = likes /\ r.comments = comments

Answer(op, sess, param, r, author) ==
    [op |-> op, sess |-> sess, id |-> param, status |-> r.status,
     message |-> r.message, same |-> Same(r), author |-> author]

PostPosts(sess, content, imageUrl, bound, watch) ==
    LET r == CreatePostRoute(sess, content, imageUrl) IN
    /\ nextPost < bound
    /\ posts' = r.posts
    /\ nextPost' = IF r.status = 201 THEN nextPost + 1 ELSE nextPost
    /\ last' = Kept(watch, Answer("POST posts", sess, <<>>, r, None)
                  @@ [valid |-> ZodIssue(content, imageUrl) = None])
    /\ UNCHANGED <<elsewhere, backend, users, follows, likes, comments,
                   nextComment, clock, inflight>>

PutPost(sess, param, content, imageUrl) ==
    LET r == UpdatePostRoute(sess, param, content, imageUrl) IN
    /\ posts' = r.posts
    /\ last' = Answer("PUT post", sess, param, r, PostAuthorAt(param))
                  @@ [valid |-> ZodIssue(content, imageUrl) = None]
    /\ UNCHANGED <<elsewhere, backend, users, follows, likes, comments,
                   nextPost, nextComment, clock, inflight>>

DeletePost(sess, param) ==
    LET r == DeletePostRoute(sess, param) IN
    /\ posts' = r.posts
    /\ likes' = r.likes
    /\ comments' = r.comments
    /\ last' = Answer("DELETE post", sess, param, r, PostAuthorAt(param))
    /\ UNCHANGED <<elsewhere, backend, users, follows,
                   nextPost, nextComment, clock, inflight>>

PostLike(sess, param, watch) ==
    LET r == LikeRoute(sess, param) IN
    /\ likes' = r.likes
    /\ last' = Kept(watch,
          [op |-> "POST like", sess |-> sess, id |-> param,
           status |-> r.status, message |-> r.message, same |-> Same(r),
           existed |-> IF RefIdArg(param).ok
                       THEN CopiesIn(Like(sess, RefIdArg(param).id), likes)
                       ELSE 0])
    /\ UNCHANGED <<elsewhere, backend, users, posts, follows, comments,
                   nextPost, nextComment, clock, inflight>>

DeleteLike(sess, param) ==
    LET r == UnlikeRoute(sess, param) IN
    /\ likes' = r.likes
    /\ last' = Answer("DELETE like", sess, param, r, PostAuthorAt(param))
    /\ UNCHANGED <<elsewhere, backend, users, posts, follows, comments,
                   nextPost, nextComment, clock, inflight>>

PostComment(sess, param, content, watch) ==
    LET r == CreateCommentRoute(sess, param, content) IN
    /\ nextComment < MaxComments
    /\ comments' = r.comments
    /\ nextComment' = IF r.status = 201 THEN nextComment + 1 ELSE nextComment
    /\ last' = Kept(watch,
          Answer("POST comment", sess, param, r, PostAuthorAt(param))
             @@ [valid |-> ZodIssue(content, "undef") = None])
    /\ UNCHANGED <<elsewhere, backend, users, posts, follows, likes,
                   nextPost, clock, inflight>>

DeleteComment(sess, param) ==
    LET r == DeleteCommentRoute(sess, param) IN
    /\ comments' = r.comments
    /\ last' = Answer("DELETE comment", sess, param, r,
                      CommentAuthorAt(param))
    /\ UNCHANGED <<elsewhere, backend, users, posts, follows, likes,
                   nextPost, nextComment, clock, inflight>>

\* Paths a client can ask for: the ids the backend hands out and, for the
\* like routes, one that names no row.
RowPaths(bound) == { IdToPath(NewId(n)) : n \in 1..bound }
PostPaths == RowPaths(MaxPosts) \cup {<<9>>}

NextLikeApi ==
    \/ \E sess \in Sessions : PostPosts(sess, 1, "undef", MaxPosts, FALSE)
    \/ \E sess \in Sessions, param \in PostPaths : PostLike(sess, param, TRUE)
    \/ \E sess \in Sessions, param \in PostPaths : DeleteLike(sess, param)

SpecLikeApi == InitStore /\ [][NextLikeApi]_vars

Authors == {"u1", "u2"}
NewContents == {0, 1}
Edits == { <<2, "url">>, <<2, "null">>, <<0, "undef">>, <<2, "bad">> }

\* Posts and comments created, edited and deleted by two users and an
\* anonymous client.
NextPostApi ==
    \/ \E sess \in Authors, content \in NewContents :
          PostPosts(sess, content, "undef", MaxPosts, FALSE)
    \/ \E sess \in Authors, param \in RowPaths(MaxPosts), edit \in Edits :
          PutPost(sess, param, edit[1], edit[2])
    \/ \E sess \in Authors, param \in RowPaths(MaxPosts) :
          DeletePost(sess, param)
    \/ \E sess \in Authors, param \in RowPaths(MaxPosts) :
          PostLike(sess, param, FALSE)
    \/ \E sess \in Authors, param \in RowPaths(MaxPosts),
          content \in NewContents :
          PostComment(sess, param, content, FALSE)
    \/ \E sess \in Authors, param \in RowPaths(MaxComments) :
          DeleteComment(sess, param)

SpecPostApi == InitStore /\ [][NextPostApi]_vars

----------------------------------------------------------------------------
(* Concurrent requests.  A handler reads only its own request until it     *)
(* awaits its single storage call, and the database runs that call         *)
(* atomically, so a request has two steps: it arrives, and later its       *)
(* storage call runs and decides the response.                             *)

RequestIds == {1, 2}

Pending == { q \in inflight : q.pc = "await" }

\* The request arrives: a follow of user `id`, or a like of the post at
\* `param`.  `with` collects the requests it overlaps, `found` tells whether
\* the target exists on arrival.
BeginRequest(rid, kind, sess, id, param) ==
    /\ \A q \in inflight : q.rid # rid
    /\ inflight' =
          { IF q.pc = "await" THEN [q EXCEPT !.with = q.with \cup {rid}]
            ELSE q : q \in inflight }
          \cup { [rid |-> rid, kind |-> kind, sess |-> sess, id |-> id,
                  param |-> param,
                  found |-> IF kind = "like" THEN PostAuthorAt(param) # None
                            ELSE id \in ExistingIds,
                  pc |-> "await", status |-> 0, message |-> None,
                  with |-> { q.rid : q \in Pending }] }
    /\ UNCHANGED <<elsewhere, backend, users, posts, follows, likes, comments,
                   nextPost, nextComment, clock, last>>

\* The storage call of a pending follow request runs and the handler replies.
FinishFollow(rid) ==
    \E q \in Pending :
       LET r == FollowRoute(q.sess, q.id) IN
       /\ q.rid = rid
       /\ q.kind = "follow"
       /\ follows' = r.store
       /\ inflight' = (inflight \ {q}) \cup
             { [q EXCEPT !.pc = "done", !.status = r.status,
                         !.message = r.message] }
       /\ UNCHANGED <<elsewhere, backend, users, posts, likes, comments,
                      nextPost, nextComment, clock, last>>

\* The storage call of a pending like request runs and the handler replies.
FinishLike(rid) ==
    \E q \in Pending :
       LET r == LikeRoute(q.sess, q.param) IN
       /\ q.rid = rid
       /\ q.kind = "like"
       /\ likes' = r.likes
       /\ inflight' = (inflight \ {q}) \cup
             { [q EXCEPT !.pc = "done", !.status = r.status,
                         !.message = r.message] }
       /\ UNCHANGED <<elsewhere, backend, users, posts, follows, comments,
                      nextPost, nextComment, clock, last>>

\* The clients have read their responses.
CollectResponses ==
    /\ inflight # {}
    /\ Pending = {}
    /\ inflight' = {}
    /\ UNCHANGED <<elsewhere, backend, users, posts, follows, likes, comments,
                   nextPost, nextComment, clock, last>>

NextRace ==
    \/ \E u \in Authors : Call_createPost(u, MaxPosts)
    \/ \E rid \in RequestIds, sess \in Authors, id \in Authors :
          BeginRequest(rid, "follow", sess, id, <<>>)
    \/ \E rid \in RequestIds, sess \in Authors, param \in RowPaths(MaxPosts) :
          BeginRequest(rid, "like", sess, None, param)
    \/ \E rid \in RequestIds : FinishFollow(rid)
    \/ \E rid \in RequestIds : FinishLike(rid)
    \/ CollectResponses

SpecRace == InitStore /\ [][NextRace]_vars

----------------------------------------------------------------------------
(* Signup and profile edit.  Each await of a handler is a step, so the     *)
(* lookups of one request interleave with the writes of another.           *)

Emails == {"e1", "e2"}
Usernames == {"n1", "n2", "n3"}

\* The handler replies; `pc` is the await it had reached.
Respond(rid, op, status, message) ==
    /\ inflight' = { q \in inflight : q.rid # rid }
    /\ last' = [op |-> op, status |-> status, message |-> message,
                pc |-> (CHOOSE q \in inflight : q.rid = rid).pc]

Advance(q, pc) ==
    /\ inflight' = (inflight \ {q}) \cup {[q EXCEPT !.pc = pc]}
    /\ last' = last

\* app.post("/api/auth/signup", ...) with a well-formed body arrives.
BeginSignup(rid, email, username) ==
    /\ \A q \in inflight : q.rid # rid
    /\ inflight' = inflight \cup
          { [rid |-> rid, kind |-> "signup", sess |-> None, email |-> email,
             username |-> username, pc |-> "getUserByEmail"] }
    /\ UNCHANGED <<elsewhere, backend, users, posts, follows, likes, comments,
                   nextPost, nextComment, clock, last>>

SignupCheckEmail(rid) ==
    \E q \in inflight :
       /\ q.rid = rid /\ q.kind = "signup" /\ q.pc = "getUserByEmail"
       /\ IF getUserByEmail(q.email) # {}
          THEN Respond(rid, "POST signup", 400,
                       "An account with that email already exists")
          ELSE Advance(q, "getUserByUsername")
       /\ UNCHANGED <<elsewhere,
                      backend, users, posts, follows, likes, comments,
                      nextPost, nextComment, clock>>

SignupCheckUsername(rid) ==
    \E q \in inflight :
       /\ q.rid = rid /\ q.kind = "signup" /\ q.pc = "getUserByUsername"
       /\ IF getUserByUsername(q.username) # {}
          THEN Respond(rid, "POST signup", 400, "Username is already taken")
          ELSE Advance(q, "upsertUser")
       /\ UNCHANGED <<elsewhere,
                      backend, users, posts, follows, likes, comments,
                      nextPost, nextComment, clock>>

SignupWrite(rid) ==
    \E q \in inflight :
       LET r == upsertUser(q.email, q.username) IN
       /\ q.rid = rid /\ q.kind = "signup" /\ q.pc = "upsertUser"
       /\ r.ok => Cardinality(users) < MaxUsers
       /\ users' = r.users
       /\ IF r.ok THEN Respond(rid, "POST signup", 201, "user")
          ELSE Respond(rid, "POST signup", 500, "Failed to sign up")
       /\ UNCHANGED <<elsewhere, backend, posts, follows, likes, comments,
                      nextPost, nextComment, clock>>

\* app.put('/api/users/me', isAuthenticated, ...) with a username arrives on
\* the session of an existing user.
BeginEdit(rid, sess, username) ==
    /\ \A q \in inflight : q.rid # rid
    /\ sess \in ExistingIds
    /\ inflight' = inflight \cup
          { [rid |-> rid, kind |-> "edit", sess |-> sess, email |-> None,
             username |-> username, pc |-> "getUserByUsername"] }
    /\ UNCHANGED <<elsewhere, backend, users, posts, follows, likes, comments,
                   nextPost, nextComment, clock, last>>

EditCheck(rid) ==
    \E q \in inflight :
       /\ q.rid = rid /\ q.kind = "edit" /\ q.pc = "getUserByUsername"
       /\ IF \E u \in getUserByUsername(q.username) : u.id # q.sess
          THEN Respond(rid, "PUT me", 400, "Username is already taken")
          ELSE Advance(q, "updateUser")
       /\ UNCHANGED <<elsewhere,
                      backend, users, posts, follows, likes, comments,
                      nextPost, nextComment, clock>>

EditWrite(rid) ==
    \E q \in inflight :
       LET r == updateUser(q.sess, q.username) IN
       /\ q.rid = rid /\ q.kind = "edit" /\ q.pc = "updateUser"
       /\ users' = r.users
       /\ IF r.ok THEN Respond(rid, "PUT me", 200, "user")
          ELSE Respond(rid, "PUT me", 500, "Failed to update user")
       /\ UNCHANGED <<elsewhere, backend, posts, follows, likes, comments,
                      nextPost, nextComment, clock>>

InitEmpty ==
    /\ Quiet
    /\ backend \in Backends
    /\ users = {}
    /\ posts = {}
    /\ follows = EmptyBag
    /\ likes = EmptyBag
    /\ comments = {}
    /\ nextPost = 0
    /\ nextComment = 0
    /\ clock = 1
    /\ inflight = {}
    /\ last = NoCall

NextSignup ==
    \/ \E rid \in RequestIds, email \in Emails, username \in Usernames :
          BeginSignup(rid, email, username)
    \/ \E rid \in RequestIds : SignupCheckEmail(rid)
    \/ \E rid \in RequestIds : SignupCheckUsername(rid)
    \/ \E rid \in RequestIds : SignupWrite(rid)
    \/ \E rid \in RequestIds, sess \in UserIds, username \in Usernames :
          BeginEdit(rid, sess, username)
    \/ \E rid \in RequestIds : EditCheck(rid)
    \/ \E rid \in RequestIds : EditWrite(rid)

SpecSignup == InitEmpty /\ [][NextSignup]_vars

----------------------------------------------------------------------------
(* User search: text.  Search text is a sequence of one-character strings. *)

Letters == {"a", "b", "A"}
Specials == {".", "*", "_", "%"}
Blank == " "

\* The "i" flag / ILIKE: letters compare without case.
Lower(c) == IF c = "A" THEN "a" ELSE c

RECURSIVE TrimLeft(_)
TrimLeft(s) ==
    IF s # <<>> /\ Head(s) = Blank THEN TrimLeft(Tail(s)) ELSE s

RECURSIVE TrimRight(_)
TrimRight(s) ==
    IF s # <<>> /\ s[Len(s)] = Blank
    THEN TrimRight(SubSeq(s, 1, Len(s) - 1)) ELSE s

\* query.trim()
Trim(s) == TrimRight(TrimLeft(s))

Suffixes(s) == { SubSeq(s, i, Len(s)) : i \in 1..(Len(s) + 1) }

\* s contains q literally, letters compared without case.
RECURSIVE LiteralPrefix(_, _)
LiteralPrefix(q, s) ==
    IF q = <<>> THEN TRUE
    ELSE IF s = <<>> THEN FALSE
    ELSE Lower(Head(q)) = Lower(Head(s)) /\ LiteralPrefix(Tail(q), Tail(s))

ContainsLiteral(q, s) == \E t \in Suffixes(s) : LiteralPrefix(q, t)

\* new RegExp(trimmed, "i") throws "Nothing to repeat" for a quantifier
\* with nothing before it.
RegExpThrows(pat) ==
    \/ pat # <<>> /\ Head(pat) = "*"
    \/ \E i \in 1..(Len(pat) - 1) : pat[i] = "*" /\ pat[i + 1] = "*"

\* One pattern character against one text character: "." is any character.
RegExpAtom(c, x) == c = "." \/ Lower(c) = Lower(x)

\* regex.test on a prefix of s: atoms, "." and the quantifier "*".
RECURSIVE RegExpHere(_, _)
RECURSIVE RegExpStar(_, _, _)
RegExpHere(pat, s) ==
    IF pat = <<>> THEN TRUE
    ELSE IF Len(pat) >= 2 /\ pat[2] = "*"
    THEN RegExpStar(Head(pat), Tail(Tail(pat)), s)
    ELSE /\ s # <<>>
         /\ RegExpAtom(Head(pat), Head(s))
         /\ RegExpHere(Tail(pat), Tail(s))

RegExpStar(c, pat, s) ==
    \/ RegExpHere(pat, s)
    \/ /\ s # <<>>
       /\ RegExpAtom(c, Head(s))
       /\ RegExpStar(c, pat, Tail(s))

\* { field: regex }: the pattern matches somewhere in the text.
RegExpTest(pat, s) == \E t \in Suffixes(s) : RegExpHere(pat, t)

\* ILIKE: "_" is any one character, "%" any run of characters.
RECURSIVE LikeHere(_, _)
LikeHere(pat, s) ==
    IF pat = <<>> THEN s = <<>>
    ELSE IF Head(pat) = "%"
    THEN \E t \in Suffixes(s) : LikeHere(Tail(pat), t)
    ELSE /\ s # <<>>
         /\ (Head(pat) = "_" \/ Lower(Head(pat)) = Lower(Head(s)))
         /\ LikeHere(Tail(pat), Tail(s))

\* ilike(column, `%${trimmed}%`)
ILike(trimmed, s) == LikeHere(<<"%">> \o trimmed \o <<"%">>, s)

----------------------------------------------------------------------------
(* User search: store, route and Explore page *)

\* A user with names.  firstName and lastName are optional: the empty set
\* when absent, else the one text.  limit is optional in the same way.
NamedUser(id, username, firstName, lastName, createdAt) ==
    [id |-> id, email |-> id, username |-> username,
     firstName |-> firstName, lastName |-> lastName, createdAt |-> createdAt]

SearchPool ==
    { NamedUser("u1", <<"a", "b">>, {<<"A", ".">>}, {}, 1),
      NamedUser("u2", <<"b", "_">>, {}, {<<"a", "*">>}, 2),
      NamedUser("u3", <<"b", "a">>, {<<"%">>}, {<<"b">>}, 2),
      NamedUser("u4", <<"A", "A">>, {<<"b", " ", "b">>}, {<<>>}, 3) }

Digits == <<"0", "1", "2", "3", "4", "5", "6", "7", "8", "9">>
CrowdIds == <<"c01", "c02", "c03", "c04", "c05", "c06", "c07", "c08", "c09", "c10",
              "c11", "c12", "c13", "c14", "c15", "c16", "c17", "c18", "c19", "c20",
              "c21", "c22", "c23", "c24", "c25", "c26", "c27", "c28", "c29", "c30">>

\* n users who all carry "a" in their names, created one after another.
Crowd(n) ==
    { NamedUser(CrowdIds[i],
                <<"a", Digits[(i \div 10) + 1], Digits[(i % 10) + 1]>>,
                {<<"a">>}, {}, i) : i \in 1..n }

SearchDefault == 10
SearchFloor == 1
SearchCap == 25

Max(a, b) == IF a > b THEN a ELSE b

\* limit ?? fallback
OrElse(limit, fallback) ==
    IF limit = {} THEN fallback ELSE CHOOSE n \in limit : TRUE

safeLimit_Unclamped(limit) == OrElse(limit, SearchDefault)

\* Math.min(Math.max(limit ?? 10, 1), 25)
safeLimit(limit) ==
    Min(Max(OrElse(limit, SearchDefault), SearchFloor), SearchCap)

\* Every order of the rows that is non-increasing in createdAt, built from
\* the newest row down.
RECURSIVE OrdersNewestFirst(_)
OrdersNewestFirst(S) ==
    IF S = {} THEN {<<>>}
    ELSE UNION { { <<x>> \o t : t \in OrdersNewestFirst(S \ {x}) } :
                   x \in { y \in S : \A z \in S : y.createdAt >= z.createdAt } }

\* The specification's match: u carries the text in one of its names.
CarriesText(trimmed, u) ==
    \/ ContainsLiteral(trimmed, u.username)
    \/ \E t \in u.firstName : ContainsLiteral(trimmed, t)
    \/ \E t \in u.lastName : ContainsLiteral(trimmed, t)

\* $or of {field: new RegExp(trimmed, "i")} / or(ilike(field, `%trimmed%`))
NameMatches(trimmed, u) ==
    IF backend = "mongo"
    THEN \/ RegExpTest(trimmed, u.username)
         \/ \E t \in u.firstName : RegExpTest(trimmed, t)
         \/ \E t \in u.lastName : RegExpTest(trimmed, t)
    ELSE \/ ILike(trimmed, u.username)
         \/ \E t \in u.firstName : ILike(trimmed, t)
         \/ \E t \in u.lastName : ILike(trimmed, t)

followersCount(id) ==
    BagCardinality(BagWithout(follows,
        [e \in BagToSet(follows) |-> e.followingId # id]))

SearchRowOf(u, currentUserId) ==
    [id |-> u.id, createdAt |-> u.createdAt,
     followersCount |-> followersCount(u.id),
     isFollowing |-> IF currentUserId # None
                     THEN isFollowing(currentUserId, u.id) ELSE FALSE]

MapSeq(s, Op(_)) == [i \in 1..Len(s) |-> Op(s[i])]

SearchHits(trimmed, currentUserId) ==
    { u \in users : /\ NameMatches(trimmed, u)
                    /\ currentUserId # None => u.id # currentUserId }

searchUsers_NoBlankCheck(query, currentUserId, limit) ==
    [queried |-> TRUE, threw |-> FALSE,
     rows |-> { MapSeq(Page(o, safeLimit(limit), 0),
                       LAMBDA u : SearchRowOf(u, currentUserId)) :
                  o \in OrdersNewestFirst(
                           SearchHits(Trim(query), currentUserId)) }]

\* searchUsers(query, currentUserId, limit): whether the store was queried,
\* whether the call threw, and the possible results.
searchUsers(query, currentUserId, limit) ==
    LET trimmed == Trim(query) IN
    IF trimmed = <<>>
    THEN [queried |-> FALSE, threw |-> FALSE, rows |-> {<<>>}]
    ELSE IF backend = "mongo" /\ RegExpThrows(trimmed)
    THEN [queried |-> FALSE, threw |-> TRUE, rows |-> {<<>>}]
    ELSE [queried |-> TRUE, threw |-> FALSE,
          rows |-> { MapSeq(Page(o, safeLimit(limit), 0),
                            LAMBDA u : SearchRowOf(u, currentUserId)) :
                       o \in OrdersNewestFirst(
                                SearchHits(trimmed, currentUserId)) }]

\* z.object({query: z.string().trim().min(2).max(50),
\*           limit: z.coerce.number().min(1).max(25).optional()}).parse
SearchZodIssue(query, limit) ==
    IF Len(Trim(query)) < 2
    THEN "String must contain at least 2 character(s)"
    ELSE IF limit # {} /\ OrElse(limit, 0) < SearchFloor
    THEN "Number must be greater than or equal to 1"
    ELSE IF limit # {} /\ OrElse(limit, 0) > SearchCap
    THEN "Number must be less than or equal to 25"
    ELSE None

\* app.get("/api/users/search", ...): the status, the body when it is a
\* list, and whether storage.searchUsers queried the store.
SearchRoute(sess, query, limit) ==
    LET r == searchUsers(Trim(query), sess, limit) IN
    IF SearchZodIssue(query, limit) # None
    THEN { [status |-> 400, message |-> SearchZodIssue(query, limit),
            body |-> <<>>, queried |-> FALSE] }
    ELSE IF r.threw
    THEN { [status |-> 500, message |-> "Failed to search users",
            body |-> <<>>, queried |-> FALSE] }
    ELSE { [status |-> 200, message |-> "users", body |-> rows,
            queried |-> r.queried] : rows \in r.rows }

ExploreLimit == 12

\* Explore: useQuery({enabled: debouncedSearch.length >= 2, ...}) with
\* debouncedSearch the trimmed search term.
ExploreRequests(searchTerm) == Len(Trim(searchTerm)) >= 2

Call_searchUsers(query, currentUserId, limit) ==
    LET r == searchUsers(query, currentUserId, limit) IN
    /\ \E rows \in r.rows :
          last' = [op |-> "searchUsers", query |-> query,
                   a |-> currentUserId, limit |-> limit,
                   queried |-> r.queried, threw |-> r.threw, rows |-> rows]
    /\ UNCHANGED <<elsewhere, backend, users, posts, follows, likes, comments,
                   nextPost, nextComment, clock, inflight>>

GetSearch(sess, query, limit) ==
    /\ \E r \in SearchRoute(sess, query, limit) :
          last' = [op |-> "GET search", query |-> query, a |-> sess,
                   limit |-> limit, queried |-> r.queried,
                   status |-> r.status, message |-> r.message,
                   rows |-> r.body]
    /\ UNCHANGED <<elsewhere, backend, users, posts, follows, likes, comments,
                   nextPost, nextComment, clock, inflight>>

\* The Explore page settles on a search term: it either sends one request
\* or none.
ExploreSearch(sess, searchTerm) ==
    /\ IF ExploreRequests(searchTerm)
       THEN \E r \in SearchRoute(sess, Trim(searchTerm), {ExploreLimit}) :
               last' = [op |-> "Explore", query |-> searchTerm, a |-> sess,
                        limit |-> {ExploreLimit}, requested |-> TRUE,
                        queried |-> r.queried, status |-> r.status,
                        rows |-> r.body]
       ELSE last' = [op |-> "Explore", query |-> searchTerm, a |-> sess,
                     limit |-> {ExploreLimit}, requested |-> FALSE,
                     queried |-> FALSE, status |-> 0, rows |-> <<>>]
    /\ UNCHANGED <<elsewhere, backend, users, posts, follows, likes, comments,
                   nextPost, nextComment, clock, inflight>>

Alphabet == Letters \cup Specials \cup {Blank}
Queries == UNION { [1..n -> Alphabet] : n \in 0..MaxQueryLen }
Limits == { {}, {-1}, {0}, {1}, {2}, {SearchCap}, {SearchCap + 1} }
Viewers == {None, "u1", "u2"}

InitSearch ==
    /\ Quiet
    /\ backend \in Backends
    /\ users \in (SUBSET SearchPool)
                   \cup {Crowd(SearchDefault + 1), Crowd(MaxCrowd)}
    /\ posts = {}
    /\ follows = EmptyBag
    /\ likes = EmptyBag
    /\ comments = {}
    /\ nextPost = 0
    /\ nextComment = 0
    /\ clock = 1
    /\ inflight = {}
    /\ last = NoCall

\* The caller has taken the result of its call.
TakeResult ==
    /\ last.op # "init"
    /\ last' = NoCall
    /\ UNCHANGED <<elsewhere, backend, users, posts, follows, likes, comments,
                   nextPost, nextComment, clock, inflight>>

\* One caller that searches, takes the result, and searches again.
NextSearch ==
    \/ /\ last.op = "init"
       /\ \E q \in Queries, v \in Viewers, limit \in Limits :
             Call_searchUsers(q, v, limit)
    \/ /\ last.op = "init"
       /\ \E q \in Queries, v \in Viewers, limit \in Limits :
             GetSearch(v, q, limit)
    \/ /\ last.op = "init"
       /\ \E q \in Queries, v \in Viewers : ExploreSearch(v, q)
    \/ TakeResult

SpecSearch == InitSearch /\ [][NextSearch]_vars

----------------------------------------------------------------------------
(* Read views: posts with their counts, user profiles *)

\* The row of a post in a view, for a viewer that may be absent (None).
PostView(p, currentUserId) ==
    [id |-> p.id, userId |-> p.userId, createdAt |-> p.createdAt,
     likesCount |-> getLikesCount(p.id),
     commentsCount |-> getCommentsCount(p.id),
     isLiked |-> IF currentUserId # None
                 THEN isLiked(currentUserId, p.id) ELSE FALSE]

\* getPost(id, currentUserId): the set holding the view, empty when the post
\* or its author is missing.
getPost(id, currentUserId) ==
    { PostView(p, currentUserId) : p \in { x \in PostsWithId(id) :
                                             AuthorExists(x) } }

\* getPosts(currentUserId, limit, offset): the possible results.
getPosts(currentUserId, limit, offset) ==
    { MapSeq(rows, LAMBDA p : PostView(p, currentUserId)) :
        rows \in Listing(posts, limit, offset) }

\* getUserPosts(userId, currentUserId): the possible results.
getUserPosts(userId, currentUserId) ==
    { MapSeq(rows, LAMBDA p : PostView(p, currentUserId)) :
        rows \in Listing({ p \in posts : p.userId = userId },
                         Cardinality(posts), 0) }

\* getFeedPosts with the counts it attaches; the viewer is the feed's owner.
FeedViews(userId, limit, offset) ==
    { MapSeq(rows, LAMBDA p : PostView(p, userId)) :
        rows \in getFeedPosts(userId, limit, offset) }

\* The text of a user id as it appears in a path.
IdDigits == {"1", "2", "3", "4", "9"}

IdText(id) ==
    CASE id = "u1" -> <<"u", "1">>
      [] id = "u2" -> <<"u", "2">>
      [] id = "u3" -> <<"u", "3">>
      [] id = "u4" -> <<"u", "4">>
      [] id = "zz" -> <<"z", "z">>
      [] OTHER -> <<"u", "9">>

\* Whether a text can be cast to the type of the id column: an ObjectId on
\* the document backend, any text on the relational one.
CastsToUserId(text) ==
    backend = "pg" \/ (Len(text) = 2 /\ text[1] = "u" /\ text[2] \in IdDigits)

followingCount(id) ==
    BagCardinality(BagWithout(follows,
        [e \in BagToSet(follows) |-> e.followerId # id]))

postsCount(id) == Cardinality({ p \in posts : p.userId = id })

ProfileOf(u, currentUserId) ==
    [id |-> u.id, username |-> u.username,
     followersCount |-> followersCount(u.id),
     followingCount |-> followingCount(u.id),
     postsCount |-> postsCount(u.id),
     isFollowing |-> IF currentUserId # None /\ currentUserId # u.id
                     THEN isFollowing(currentUserId, u.id) ELSE FALSE]

\* getUserProfile(identifier, currentUserId): by username first, then by id.
\* `found` is the set holding the profile, empty for undefined.
getUserProfile(identifier, currentUserId) ==
    LET byName == { u \in users : u.username = identifier }
        byId == { u \in users : IdText(u.id) = identifier }
    IN IF byName # {}
       THEN [threw |-> FALSE,
             found |-> { ProfileOf(u, currentUserId) : u \in byName }]
       ELSE IF ~CastsToUserId(identifier)
       THEN [threw |-> TRUE, found |-> {}]
       ELSE [threw |-> FALSE,
             found |-> { ProfileOf(u, currentUserId) : u \in byId }]

----------------------------------------------------------------------------
(* The read views over a store that follow, like, comment and post calls   *)
(* change.  A reader takes one view at a time.                             *)

\* u1's username reads like u2's id.
ProfilePool ==
    { NamedUser("u1", <<"u", "2">>, {}, {}, 1),
      NamedUser("u2", <<"a", "b">>, {}, {}, 2),
      NamedUser("u3", <<"b", "a">>, {}, {}, 2) }

Identifiers ==
    { <<"u", "2">>, <<"a", "b">>, <<"u", "1">>, <<"u", "9">>, <<"z", "z">> }

Call_deletePost(id, u) ==
    LET r == deletePost(id, u) IN
    /\ posts' = r.posts
    /\ likes' = r.likes
    /\ comments' = r.comments
    /\ last' = NoCall
    /\ UNCHANGED <<elsewhere,
                   backend, users, follows, nextPost, nextComment, clock,
                   inflight>>

Call_createComment(u, postId) ==
    LET r == createComment(u, postId, 1) IN
    /\ nextComment < MaxComments
    /\ comments' = r.comments
    /\ nextComment' = IF r.ok THEN nextComment + 1 ELSE nextComment
    /\ last' = NoCall
    /\ UNCHANGED <<elsewhere,
                   backend, users, posts, follows, likes, nextPost, clock,
                   inflight>>

Call_deleteComment(id, u) ==
    LET r == deleteComment(id, u) IN
    /\ comments' = r.comments
    /\ last' = NoCall
    /\ UNCHANGED <<elsewhere, backend, users, posts, follows, likes, nextPost,
                   nextComment, clock, inflight>>

PostViewOps == {"getPost", "getPosts", "getUserPosts", "getFeedPosts"}

\* A like or an unlike.  A caller that watches keeps what it did and the
\* post views the reader before it was shown.
Call_setLike(u, postId, on, watch) ==
    LET r == IF on THEN likePost(u, postId) ELSE unlikePost(u, postId) IN
    /\ likes' = r.likes
    /\ last' = Kept(watch,
          [op |-> "setLike", a |-> u, postId |-> postId, on |-> on,
           had |-> isLiked(u, postId),
           seen |-> IF last.op \in PostViewOps
                    THEN {[a |-> last.a, rows |-> last.rows]} ELSE {}])
    /\ UNCHANGED <<elsewhere, backend, users, posts, follows, comments,
                   nextPost, nextComment, clock, inflight>>

\* A read of post views; after a watched like or unlike it remembers that
\* call.
PostViewsRead(op, a, rows) ==
    [op |-> op, a |-> a, rows |-> rows,
     after |-> IF last.op = "setLike" THEN {last} ELSE {}]

Call_getPost(id, currentUserId) ==
    /\ last' = PostViewsRead("getPost", currentUserId,
          IF getPost(id, currentUserId) = {} THEN <<>>
          ELSE <<CHOOSE v \in getPost(id, currentUserId) : TRUE>>)
    /\ UNCHANGED <<elsewhere, backend, users, posts, follows, likes, comments,
                   nextPost, nextComment, clock, inflight>>

Call_getPosts(currentUserId, limit, offset) ==
    /\ \E rows \in getPosts(currentUserId, limit, offset) :
          last' = PostViewsRead("getPosts", currentUserId, rows)
    /\ UNCHANGED <<elsewhere, backend, users, posts, follows, likes, comments,
                   nextPost, nextComment, clock, inflight>>

Call_getUserPosts(userId, currentUserId) ==
    /\ \E rows \in getUserPosts(userId, currentUserId) :
          last' = PostViewsRead("getUserPosts", currentUserId, rows)
    /\ UNCHANGED <<elsewhere, backend, users, posts, follows, likes, comments,
                   nextPost, nextComment, clock, inflight>>

Call_feedViews(userId, limit, offset) ==
    /\ \E rows \in FeedViews(userId, limit, offset) :
          last' = PostViewsRead("getFeedPosts", userId, rows)
    /\ UNCHANGED <<elsewhere, backend, users, posts, follows, likes, comments,
                   nextPost, nextComment, clock, inflight>>

Call_getUserProfile(identifier, currentUserId) ==
    LET r == getUserProfile(identifier, currentUserId) IN
    /\ last' = [op |-> "getUserProfile", identifier |-> identifier,
                a |-> currentUserId, threw |-> r.threw, found |-> r.found]
    /\ UNCHANGED <<elsewhere, backend, users, posts, follows, likes, comments,
                   nextPost, nextComment, clock, inflight>>

InitViews ==
    /\ Quiet
    /\ backend \in Backends
    /\ users = ProfilePool
    /\ posts = {}
    /\ follows = EmptyBag
    /\ likes = EmptyBag
    /\ comments = {}
    /\ nextPost = 0
    /\ nextComment = 0
    /\ clock = 1
    /\ inflight = {}
    /\ last = NoCall

Idle == last.op = "init"

NextViews ==
    \/ \E a \in Authors, b \in Authors : a # b /\ Call_followUser(a, b, FALSE)
    \/ \E a \in Authors, b \in Authors : Call_unfollowUser(a, b, FALSE)
    \/ \E u \in Authors : Call_createPost(u, MaxPosts)
    \/ \E u \in Authors, id \in PostIds : Call_deletePost(id, u)
    \/ \E u \in Authors, id \in PostIds, on \in BOOLEAN :
          Call_setLike(u, id, on, FALSE)
    \/ \E id \in PostIds : Call_createComment("u2", id)
    \/ \E c \in comments : Call_deleteComment(c.id, "u2")
    \/ \E id \in PostIds, v \in Viewers : Idle /\ Call_getPost(id, v)
    \/ \E v \in Viewers : Idle /\ Call_getPosts(v, DefaultLimit, 0)
    \/ \E u \in Authors, v \in Viewers : Idle /\ Call_getUserPosts(u, v)
    \/ \E u \in Authors : Idle /\ Call_feedViews(u, DefaultLimit, 0)
    \/ \E t \in Identifiers, v \in Viewers :
          Idle /\ Call_getUserProfile(t, v)
    \/ \E v \in Viewers : Idle /\ Call_searchUsers(<<"b">>, v, {})
    \/ TakeResult

SpecViews == InitViews /\ [][NextViews]_vars

\* Likes and unlikes between two reads of post views.
AwaitsRead == last.op \in {"init", "setLike"}

NextIsLiked ==
    \/ Call_createPost("u1", MaxPosts)
    \/ \E u \in Authors, id \in PostIds, on \in BOOLEAN :
          Call_setLike(u, id, on, TRUE)
    \/ \E id \in PostIds, v \in Viewers : AwaitsRead /\ Call_getPost(id, v)
    \/ \E v \in Viewers : AwaitsRead /\ Call_getPosts(v, DefaultLimit, 0)
    \/ \E v \in Viewers : AwaitsRead /\ Call_getUserPosts("u1", v)
    \/ \E u \in Authors : AwaitsRead /\ Call_feedViews(u, DefaultLimit, 0)
    \/ TakeResult

SpecIsLiked == InitViews /\ [][NextIsLiked]_vars

----------------------------------------------------------------------------
(* Suggested users *)

SuggestDefault == 5

\* A path parameter that is no id of the store's format.
JunkUserId == "zz"

\* getSuggestedUsers(currentUserId, limit): users other than the caller and
\* those the caller follows, newest first.  On the document backend the
\* followed ids are cast to the type of _id for the $nin filter.
getSuggestedUsers(currentUserId, limit) ==
    LET followingIds == FollowingIds(currentUserId) \cup {currentUserId}
        eligible == { u \in users : u.id \notin followingIds }
    IN IF \E id \in followingIds : ~CastsToUserId(IdText(id))
       THEN [threw |-> TRUE, rows |-> {<<>>}]
       ELSE [threw |-> FALSE,
             rows |-> { MapSeq(Page(o, OrElse(limit, SuggestDefault), 0),
                               LAMBDA u : [id |-> u.id,
                                           createdAt |-> u.createdAt]) :
                          o \in OrdersNewestFirst(eligible) }]

\* A read of the suggestions; right after a follow or unfollow call it
\* remembers that call.
Call_getSuggestedUsers(currentUserId, limit) ==
    LET r == getSuggestedUsers(currentUserId, limit) IN
    /\ \E rows \in r.rows :
          last' = [op |-> "getSuggestedUsers", a |-> currentUserId,
                   limit |-> limit, threw |-> r.threw, rows |-> rows,
                   after |-> IF last.op = "followUser"
                             THEN {[op |-> last.op, a |-> last.a,
                                    b |-> last.b, done |-> last.ok]}
                             ELSE IF last.op = "unfollowUser"
                             THEN {[op |-> last.op, a |-> last.a,
                                    b |-> last.b, done |-> last.ret]}
                             ELSE {}]
    /\ UNCHANGED <<elsewhere, backend, users, posts, follows, likes, comments,
                   nextPost, nextComment, clock, inflight>>

SuggestLimits == { {}, {1}, {2} }

InitSuggest ==
    /\ Quiet
    /\ backend \in Backends
    /\ users \in { ProfilePool, ProfilePool \cup Crowd(SuggestDefault + 1) }
    /\ posts = {}
    /\ follows = EmptyBag
    /\ likes = EmptyBag
    /\ comments = {}
    /\ nextPost = 0
    /\ nextComment = 0
    /\ clock = 1
    /\ inflight = {}
    /\ last = NoCall

NextSuggest ==
    \/ \E a \in Authors, b \in UserIds \cup {GhostUserId, JunkUserId} :
          a # b /\ Call_followUser(a, b, TRUE)
    \/ \E a \in Authors, b \in UserIds \cup {GhostUserId, JunkUserId} :
          Call_unfollowUser(a, b, TRUE)
    \/ \E v \in Authors, limit \in SuggestLimits :
          Call_getSuggestedUsers(v, limit)
    \/ TakeResult

SpecSuggest == InitSuggest /\ [][NextSuggest]_vars

----------------------------------------------------------------------------
(* GET /api/users/:identifier *)

ProfileRoute(sess, identifier) ==
    LET r == getUserProfile(identifier, sess) IN
    IF r.threw
    THEN [status |-> 500, message |-> "Failed to fetch user profile",
          body |-> {}]
    ELSE IF r.found = {}
    THEN [status |-> 404, message |-> "User not found", body |-> {}]
    ELSE [status |-> 200, message |-> "profile", body |-> r.found]

GetProfile(sess, identifier) ==
    LET r == ProfileRoute(sess, identifier) IN
    /\ last' = [op |-> "GET profile", sess |-> sess,
                identifier |-> identifier, status |-> r.status,
                message |-> r.message, body |-> r.body]
    /\ UNCHANGED <<elsewhere, backend, users, posts, follows, likes, comments,
                   nextPost, nextComment, clock, inflight>>

NextProfile ==
    \/ \E a \in Authors, b \in UserIds : a # b /\ Call_followUser(a, b, FALSE)
    \/ \E a \in Authors, b \in UserIds : Call_unfollowUser(a, b, FALSE)
    \/ \E u \in Authors : Call_createPost(u, MaxPosts)
    \/ \E t \in Identifiers, v \in Viewers : GetProfile(v, t)

SpecProfile == InitViews /\ [][NextProfile]_vars

----------------------------------------------------------------------------
(* Paging through the global feed *)

PageSizes == {1, 2}

Paging == last.op = "getPosts pages"

\* getPosts(undefined, L, k * L) for the next k of a walk through the feed:
\* the first page, or the one after the pages read so far when the last of
\* them was full.  Any change of the store ends the walk.
Call_nextPage(L) ==
    LET before == IF Paging THEN last.pages ELSE <<>>
        k == Len(before)
    IN /\ Paging => last.L = L /\ Len(before[k]) = L
       /\ \E rows \in getPosts(None, L, k * L) :
             last' = [op |-> "getPosts pages", L |-> L,
                      pages |-> Append(before,
                          MapSeq(rows, LAMBDA v : [id |-> v.id,
                                        createdAt |-> v.createdAt]))]
       /\ UNCHANGED <<elsewhere,
                      backend, users, posts, follows, likes, comments,
                      nextPost, nextComment, clock, inflight>>

NextPages ==
    \/ \E u \in Authors : Call_createPost(u, MaxFeedPosts)
    \/ \E u \in Authors, id \in PostIds : Call_deletePost(id, u)
    \/ Tick
    \/ \E L \in PageSizes : Call_nextPage(L)

SpecPages == InitViews /\ [][NextPages]_vars

----------------------------------------------------------------------------
(* The routes behind isAuthenticated, asked with and without a session     *)

\* app.get('/api/users/suggested', isAuthenticated, ...)
SuggestedRoute(sess) ==
    LET r == getSuggestedUsers(sess, {SuggestDefault}) IN
    IF ~isAuthenticated(sess) THEN [status |-> 401, message |-> "Unauthorized"]
    ELSE IF r.threw
    THEN [status |-> 500, message |-> "Failed to fetch suggested users"]
    ELSE [status |-> 200, message |-> "users"]

\* app.get('/api/posts/feed', isAuthenticated, ...)
FeedRoute(sess) ==
    IF ~isAuthenticated(sess) THEN [status |-> 401, message |-> "Unauthorized"]
    ELSE [status |-> 200, message |-> "posts"]

\* app.get("/api/auth/user", ...): the handler tests the session itself.
AuthUserRoute(sess) ==
    IF sess = None THEN [status |-> 401, message |-> "Unauthorized"]
    ELSE [status |-> 200, message |-> "user"]

\* app.put('/api/users/me', isAuthenticated, ...) with a username.
EditRoute(sess, username) ==
    LET r == updateUser(sess, username) IN
    IF ~isAuthenticated(sess)
    THEN [status |-> 401, message |-> "Unauthorized", users |-> users]
    ELSE IF \E u \in getUserByUsername(username) : u.id # sess
    THEN [status |-> 400, message |-> "Username is already taken",
          users |-> users]
    ELSE IF r.ok THEN [status |-> 200, message |-> "user", users |-> r.users]
    ELSE [status |-> 500, message |-> "Failed to update user",
          users |-> users]

\* A request that reads: suggested users, personalized feed, session user.
GetGuarded(op, sess) ==
    LET r == CASE op = "GET suggested" -> SuggestedRoute(sess)
               [] op = "GET feed" -> FeedRoute(sess)
               [] OTHER -> AuthUserRoute(sess)
    IN /\ last' = [op |-> op, sess |-> sess, status |-> r.status,
                   message |-> r.message]
       /\ UNCHANGED <<elsewhere,
                      backend, users, posts, follows, likes, comments,
                      nextPost, nextComment, clock, inflight>>

PutMe(sess, username) ==
    LET r == EditRoute(sess, username) IN
    /\ users' = r.users
    /\ last' = [op |-> "PUT me", sess |-> sess, status |-> r.status,
                message |-> r.message]
    /\ UNCHANGED <<elsewhere, backend, posts, follows, likes, comments,
                   nextPost, nextComment, clock, inflight>>

GuardedReads == {"GET suggested", "GET feed", "GET auth user"}

NextGuard ==
    \/ \E sess \in Viewers, op \in GuardedReads : GetGuarded(op, sess)
    \/ \E sess \in Viewers, username \in {"n2", "n9"} : PutMe(sess, username)
    \/ \E sess \in Viewers, id \in Authors : PostFollow(sess, id)
    \/ \E sess \in Viewers, id \in Authors : DeleteFollow(sess, id)
    \/ \E sess \in Viewers :
          PostPosts(sess, 1, "undef", MaxGuardedPosts, TRUE)
    \/ \E sess \in Viewers, param \in RowPaths(MaxGuardedPosts) :
          PutPost(sess, param, 2, "url")
    \/ \E sess \in Viewers, param \in RowPaths(MaxGuardedPosts) :
          DeletePost(sess, param)
    \/ \E sess \in Viewers, param \in RowPaths(MaxGuardedPosts) :
          PostLike(sess, param, TRUE)
    \/ \E sess \in Viewers, param \in RowPaths(MaxGuardedPosts) :
          DeleteLike(sess, param)
    \/ \E sess \in Viewers, param \in RowPaths(MaxGuardedPosts) :
          PostComment(sess, param, 1, TRUE)
    \/ \E sess \in Viewers, param \in RowPaths(MaxComments) :
          DeleteComment(sess, param)

SpecGuard == InitStore /\ [][NextGuard]_vars

----------------------------------------------------------------------------
(* Content lengths at the routes that store text *)

ContentLengths == {ContentMin - 1, ContentMin, ContentMax, ContentMax + 1}

NextContent ==
    \/ \E sess \in Authors, content \in ContentLengths :
          PostPosts(sess, content, "undef", MaxPosts, TRUE)
    \/ \E sess \in Authors, param \in RowPaths(MaxPosts),
          content \in ContentLengths : PutPost(sess, param, content, "url")
    \/ \E sess \in Authors, param \in RowPaths(MaxPosts),
          content \in ContentLengths : PostComment(sess, param, content, TRUE)

SpecContent == InitStore /\ [][NextContent]_vars

----------------------------------------------------------------------------
(* Signup, login and logout on one browser session *)

Passwords == {"p1", "p2"}

\* Bodies that fail signupSchema / loginSchema.
BadEmail == "bad"
ShortIdentifier == "xx"

\* identifier.includes("@")
IncludesAt(identifier) == identifier \in Emails \cup {"e9"}

\* app.post("/api/auth/signup", ...): the body's password is not part of
\* signupSchema and never reaches the store.
SignupRoute(email, username, password) ==
    LET r == upsertUser(email, username)
        id == NewUserId(Cardinality(users) + 1) IN
    IF email = BadEmail
    THEN [status |-> 400, message |-> "Invalid email", users |-> users,
          session |-> session]
    ELSE IF getUserByEmail(email) # {}
    THEN [status |-> 400,
          message |-> "An account with that email already exists",
          users |-> users, session |-> session]
    ELSE IF getUserByUsername(username) # {}
    THEN [status |-> 400, message |-> "Username is already taken",
          users |-> users, session |-> session]
    ELSE IF ~r.ok
    THEN [status |-> 500, message |-> "Failed to sign up", users |-> users,
          session |-> session]
    ELSE [status |-> 201, message |-> "user", users |-> r.users,
          session |-> id]

\* A login that binds the session also when no account was found.
LoginRoute_BindsAnyway(identifier, password) ==
    [status |-> 404, message |-> "Account not found. Please sign up first.",
     session |-> identifier]

\* app.post("/api/auth/login", ...): loginSchema holds the identifier only.
LoginRoute(identifier, password) ==
    LET user == IF IncludesAt(identifier) THEN getUserByEmail(identifier)
                ELSE getUserByUsername(identifier) IN
    IF identifier = ShortIdentifier
    THEN [status |-> 400,
          message |-> "String must contain at least 3 character(s)",
          session |-> session]
    ELSE IF user = {}
    THEN [status |-> 404,
          message |-> "Account not found. Please sign up first.",
          session |-> session]
    ELSE [status |-> 200, message |-> "user",
          session |-> (CHOOSE u \in user : TRUE).id]

\* app.post("/api/auth/logout", ...): req.session.destroy.
LogoutRoute ==
    [status |-> 200, message |-> "Logged out", session |-> None]

PostSignup(email, username, password) ==
    LET r == SignupRoute(email, username, password) IN
    /\ r.status = 201 => Cardinality(users) < MaxUsers
    /\ users' = r.users
    /\ session' = r.session
    /\ secrets' = IF r.status = 201
                  THEN secrets \cup {[id |-> r.session, password |-> password]}
                  ELSE secrets
    /\ last' = [op |-> "POST signup", status |-> r.status,
                message |-> r.message, email |-> email,
                username |-> username, password |-> password]
    /\ UNCHANGED <<backend, posts, follows, likes, comments, nextPost,
                   nextComment, clock, inflight, dbconn, widgets>>

PostLogin(identifier, password) ==
    LET r == LoginRoute(identifier, password) IN
    /\ session' = r.session
    /\ last' = [op |-> "POST login", status |-> r.status,
                message |-> r.message, identifier |-> identifier,
                password |-> password]
    /\ UNCHANGED <<backend, users, posts, follows, likes, comments, nextPost,
                   nextComment, clock, inflight, secrets, dbconn, widgets>>

PostLogout ==
    LET r == LogoutRoute IN
    /\ session' = r.session
    /\ last' = [op |-> "POST logout", status |-> r.status,
                message |-> r.message]
    /\ UNCHANGED <<backend, users, posts, follows, likes, comments, nextPost,
                   nextComment, clock, inflight, secrets, dbconn, widgets>>

\* A protected request sent with the session's cookie.
GetAuthUser ==
    LET r == AuthUserRoute(session) IN
    /\ last' = [op |-> "GET auth user", status |-> r.status,
                message |-> r.message,
                body |-> IF r.status = 200 THEN { u.id : u \in getUser(session) }
                         ELSE {}]
    /\ UNCHANGED <<elsewhere, backend, users, posts, follows, likes, comments,
                   nextPost, nextComment, clock, inflight>>

Identifications == Emails \cup {"n1", "n2", "e9", ShortIdentifier}

NextAuth ==
    \/ \E email \in Emails \cup {BadEmail}, username \in {"n1", "n2"},
          password \in Passwords : PostSignup(email, username, password)
    \/ \E identifier \in Identifications, password \in Passwords :
          PostLogin(identifier, password)
    \/ PostLogout
    \/ GetAuthUser

SpecAuth == InitEmpty /\ [][NextAuth]_vars

----------------------------------------------------------------------------
(* Follows, likes, comments and post deletions through the routes *)

NextIntegrity ==
    \/ \E id \in TargetIds : PostFollow("u1", id)
    \/ \E sess \in Authors : PostPosts(sess, 1, "undef", MaxPosts, FALSE)
    \/ \E sess \in Authors, param \in PostPaths :
          PostLike(sess, param, FALSE)
    \/ \E param \in PostPaths : PostComment("u2", param, 1, FALSE)
    \/ \E sess \in Authors, param \in RowPaths(MaxPosts) :
          DeletePost(sess, param)

SpecIntegrity == InitStore /\ [][NextIntegrity]_vars

----------------------------------------------------------------------------
(* Lookups by id while usernames change *)

\* username: z.string().min(3).max(30).regex(/^[a-zA-Z0-9_]+$/).  The hex
\* text of an ObjectId passes; the relational backend's generated keys are
\* taken to hold a character outside the pattern.
UsernameZodIssue(username) ==
    IF backend = "pg" /\ \E id \in UserIds : IdText(id) = username
    THEN "Username can only contain letters, numbers, and underscores"
    ELSE None

\* app.put('/api/users/me', isAuthenticated, ...) with a username as text.
PutUsername(sess, username) ==
    LET r == IF isAuthenticated(sess) /\ UsernameZodIssue(username) # None
              THEN [status |-> 400, message |-> UsernameZodIssue(username),
                    users |-> users]
              ELSE EditRoute(sess, username) IN
    /\ users' = r.users
    /\ last' = [op |-> "PUT me", sess |-> sess, status |-> r.status,
                message |-> r.message]
    /\ UNCHANGED <<elsewhere, backend, posts, follows, likes, comments,
                   nextPost, nextComment, clock, inflight>>

\* app.get('/api/users/:identifier/posts', ...): the user is looked up by
\* username, then by id; `owner` is whose posts are listed.
UserPostsRoute(sess, identifier) ==
    LET byName == { u \in users : u.username = identifier }
        byId == { u \in users : IdText(u.id) = identifier }
    IN IF byName # {}
       THEN [status |-> 200, message |-> "posts",
             owner |-> { u.id : u \in byName }]
       ELSE IF ~CastsToUserId(identifier)
       THEN [status |-> 500, message |-> "Failed to fetch user posts",
             owner |-> {}]
       ELSE IF byId = {}
       THEN [status |-> 404, message |-> "User not found", owner |-> {}]
       ELSE [status |-> 200, message |-> "posts",
             owner |-> { u.id : u \in byId }]

GetUserPosts(sess, identifier) ==
    LET r == UserPostsRoute(sess, identifier) IN
    /\ \E rows \in UNION { getUserPosts(id, sess) : id \in r.owner }
                     \cup {<<>>} :
          /\ r.owner = {} => rows = <<>>
          /\ r.owner # {} =>
                rows \in UNION { getUserPosts(id, sess) : id \in r.owner }
          /\ last' = [op |-> "GET user posts", sess |-> sess,
                      identifier |-> identifier, status |-> r.status,
                      message |-> r.message,
                      body |-> { [id |-> id] : id \in r.owner },
                      rows |-> rows]
    /\ UNCHANGED <<elsewhere, backend, users, posts, follows, likes, comments,
                   nextPost, nextComment, clock, inflight>>

\* Three users whose usernames are no id.
PlainPool == { u \in SearchPool : u.id \in UserIds }

InitLookup ==
    /\ Quiet
    /\ backend \in Backends
    /\ users = PlainPool
    /\ posts = {}
    /\ follows = EmptyBag
    /\ likes = EmptyBag
    /\ comments = {}
    /\ nextPost = 0
    /\ nextComment = 0
    /\ clock = 1
    /\ inflight = {}
    /\ last = NoCall

NewNames == { IdText("u1"), IdText("u2"), <<"a", "c">> }

NextLookup ==
    \/ \E sess \in Authors, username \in NewNames : PutUsername(sess, username)
    \/ \E u \in Authors : Call_createPost(u, MaxPosts)
    \/ \E v \in Viewers, id \in UserIds : GetProfile(v, IdText(id))
    \/ \E v \in Viewers, id \in UserIds : GetUserPosts(v, IdText(id))

SpecLookup == InitLookup /\ [][NextLookup]_vars

----------------------------------------------------------------------------
(* The database connection: ensureDatabaseReady of server/db.ts *)

MaxConnects == 3

\* The function up to its await: "if (isConnected) return;" and then the
\* invocation of mongoose.connect(dbUrl), whose promise the call awaits.
EnsureStarts(c) ==
    /\ calls[c] # "connecting"
    /\ ~isConnected => connects.started < MaxConnects
    /\ calls' = [calls EXCEPT ![c] = IF isConnected THEN "skipped"
                                     ELSE "connecting"]
    /\ connects' = [connects EXCEPT !.started = IF isConnected THEN @
                                                ELSE @ + 1]
    /\ UNCHANGED <<isConnected, store, last, auth, widgets>>

\* The awaited connect resolves: isConnected = true and the call returns.
ConnectResolves(c) ==
    /\ calls[c] = "connecting"
    /\ isConnected' = TRUE
    /\ calls' = [calls EXCEPT ![c] = "connected"]
    /\ UNCHANGED <<connects, store, last, auth, widgets>>

\* The awaited connect rejects: the catch block logs and rethrows.
ConnectRejects(c) ==
    /\ calls[c] = "connecting"
    /\ calls' = [calls EXCEPT ![c] = "threw"]
    /\ connects' = [connects EXCEPT !.failed = @ + 1]
    /\ UNCHANGED <<isConnected, store, last, auth, widgets>>

NextConnect ==
    \/ \E c \in Callers : EnsureStarts(c)
    \/ \E c \in Callers : ConnectResolves(c)
    \/ \E c \in Callers : ConnectRejects(c)

SpecConnect == InitEmpty /\ [][NextConnect]_vars

----------------------------------------------------------------------------
(* The FollowButton component *)

MaxClicks == 3

\* The two versions of the component: 1 hands the state before the click to
\* mutationFn as its variable, 2 lets mutationFn read the component's state.
Variants == {1, 2}

\* useState(serverIsFollowing) on the first render.
MountFollow(variant, serverIsFollowing) ==
    /\ ~followButton.mounted
    /\ followButton' = [mounted |-> TRUE, variant |-> variant,
                        serverIsFollowing |-> serverIsFollowing,
                        isFollowing |-> serverIsFollowing,
                        isPending |-> FALSE, previousState |-> {},
                        sent |-> "none", reported |-> {},
                        preClick |-> serverIsFollowing, outcome |-> "none",
                        clicks |-> 0]
    /\ UNCHANGED <<store, last, auth, dbconn, likeButton, debounce>>

\* useEffect(() => setIsFollowing(serverIsFollowing), [serverIsFollowing]).
SyncFollow(serverIsFollowing) ==
    /\ followButton.mounted
    /\ serverIsFollowing # followButton.serverIsFollowing
    /\ followButton' = [followButton EXCEPT
          !.serverIsFollowing = serverIsFollowing,
          !.isFollowing = serverIsFollowing,
          !.outcome = IF followButton.isPending THEN @ ELSE "none"]
    /\ UNCHANGED <<store, last, auth, dbconn, likeButton, debounce>>

\* mutationFn: the method of the request.  Version 1 tests its variable,
\* the state of the render that was clicked.  Version 2 tests isFollowing of
\* the render whose options the mutation holds when mutationFn runs, which is
\* after onMutate has called setIsFollowing: seen is that render's value.
mutationFn(variant, currentFollowingState, seen) ==
    IF variant = 1
    THEN IF currentFollowingState THEN "DELETE" ELSE "POST"
    ELSE IF seen THEN "DELETE" ELSE "POST"

\* handleClick on an enabled button: mutate, onMutate, then mutationFn.
\* While isPending the button is rendered disabled and without onClick.
ClickFollow(seen) ==
    LET b == followButton IN
    /\ b.mounted
    /\ ~b.isPending
    /\ b.clicks < MaxClicks
    /\ followButton' = [b EXCEPT
          !.isFollowing = ~b.isFollowing,
          !.reported = IF b.variant = 1 THEN {~b.isFollowing} ELSE @,
          !.previousState = {b.isFollowing},
          !.sent = mutationFn(b.variant, b.isFollowing, seen),
          !.isPending = TRUE,
          !.preClick = b.isFollowing,
          !.outcome = "pending",
          !.clicks = @ + 1]
    /\ UNCHANGED <<store, last, auth, dbconn, likeButton, debounce>>

\* onSuccess: version 2 reports its state through onFollowChange.
FollowSucceeds ==
    LET b == followButton IN
    /\ b.mounted
    /\ b.isPending
    /\ followButton' = [b EXCEPT
          !.reported = IF b.variant = 2 THEN {b.isFollowing} ELSE @,
          !.isPending = FALSE,
          !.outcome = "succeeded"]
    /\ UNCHANGED <<store, last, auth, dbconn, likeButton, debounce>>

\* onError: setIsFollowing(context.previousState); version 1 also reports it.
FollowFails ==
    LET b == followButton IN
    /\ b.mounted
    /\ b.isPending
    /\ followButton' = [b EXCEPT
          !.isFollowing = CHOOSE p \in b.previousState : TRUE,
          !.reported = IF b.variant = 1 THEN b.previousState ELSE @,
          !.isPending = FALSE,
          !.outcome = "failed"]
    /\ UNCHANGED <<store, last, auth, dbconn, likeButton, debounce>>

NextFollowButton ==
    \/ \E variant \in Variants, p \in BOOLEAN : MountFollow(variant, p)
    \/ \E p \in BOOLEAN : SyncFollow(p)
    \/ \E seen \in BOOLEAN : ClickFollow(seen)
    \/ FollowSucceeds
    \/ FollowFails

SpecFollowButton == InitEmpty /\ [][NextFollowButton]_vars

----------------------------------------------------------------------------
(* The LikeButton component *)

MaxShownLikes == 2

\* Props that agree with a server state: a post the viewer likes has a like.
ConsistentProps(isLikedProp, likesCount) ==
    /\ likesCount >= 0
    /\ isLikedProp => likesCount >= 1

\* useState(initialIsLiked), useState(initialLikesCount) on the first render.
MountLike(initialIsLiked, initialLikesCount) ==
    /\ ~likeButton.mounted
    /\ likeButton' = [mounted |-> TRUE, isLiked |-> initialIsLiked,
                      likesCount |-> initialLikesCount,
                      isPending |-> FALSE, sent |-> "none",
                      consistent |-> ConsistentProps(initialIsLiked,
                                                     initialLikesCount),
                      before |-> [isLiked |-> initialIsLiked,
                                  likesCount |-> initialLikesCount],
                      outcome |-> "none", clicks |-> 0]
    /\ UNCHANGED <<store, last, auth, dbconn, followButton, debounce>>

\* handleClick on the enabled button (disabled = likeMutation.isPending):
\* likeMutation.mutate() and the request of mutationFn.
ClickLike ==
    LET b == likeButton IN
    /\ b.mounted
    /\ ~b.isPending
    /\ b.clicks < MaxClicks
    /\ likeButton' = [b EXCEPT
          !.sent = IF b.isLiked THEN "DELETE" ELSE "POST",
          !.isPending = TRUE,
          !.before = [isLiked |-> b.isLiked, likesCount |-> b.likesCount],
          !.outcome = "pending",
          !.clicks = @ + 1]
    /\ UNCHANGED <<store, last, auth, dbconn, followButton, debounce>>

onSuccess_KeepsCount(isLikedNow, likesCount) ==
    [isLiked |-> ~isLikedNow, likesCount |-> likesCount]

\* onSuccess: newIsLiked = !isLiked, newCount = likesCount + 1 or - 1.
onSuccess(isLikedNow, likesCount) ==
    LET newIsLiked == ~isLikedNow IN
    [isLiked |-> newIsLiked,
     likesCount |-> IF newIsLiked THEN likesCount + 1 ELSE likesCount - 1]

LikeSucceeds ==
    LET b == likeButton
        new == onSuccess(b.isLiked, b.likesCount) IN
    /\ b.mounted
    /\ b.isPending
    /\ likeButton' = [b EXCEPT
          !.isLiked = new.isLiked,
          !.likesCount = new.likesCount,
          !.isPending = FALSE,
          !.outcome = "succeeded"]
    /\ UNCHANGED <<store, last, auth, dbconn, followButton, debounce>>

\* onError: a toast, and for a 401 the redirect; no state of the button.
LikeFails ==
    LET b == likeButton IN
    /\ b.mounted
    /\ b.isPending
    /\ likeButton' = [b EXCEPT !.isPending = FALSE, !.outcome = "failed"]
    /\ UNCHANGED <<store, last, auth, dbconn, followButton, debounce>>

NextLikeButton ==
    \/ \E p \in BOOLEAN, n \in 0..MaxShownLikes : MountLike(p, n)
    \/ ClickLike
    \/ LikeSucceeds
    \/ LikeFails

SpecLikeButton == InitEmpty /\ [][NextLikeButton]_vars

----------------------------------------------------------------------------
(* The useDebouncedValue hook *)

MaxDelay == 3

\* Delays in ticks of the browser's timer clock, and the values typed.
Delays == {2, MaxDelay}
Inputs == {"", "a", "ab"}

clearTimeout_Leaves(timers) == timers

\* The effect's cleanup, window.clearTimeout(timer): no timer is left armed.
clearTimeout(timers) == {}

\* window.setTimeout(() => setDebounced(value), delay): the callback keeps
\* the value of the render that armed it.
setTimeout(value, delay) == [left |-> delay, value |-> value]

\* The first render: useState(value), then the effect arms its timer.
MountDebounce(value, delay) ==
    /\ ~debounce.mounted
    /\ debounce' = [mounted |-> TRUE, value |-> value, delay |-> delay,
                    debounced |-> value,
                    timers |-> {setTimeout(value, delay)},
                    first |-> value, held |-> 0, cancelled |-> FALSE]
    /\ UNCHANGED <<store, last, auth, dbconn, followButton, likeButton>>

\* A render with another value: the effect's cleanup runs, then the effect.
SetValue(value) ==
    /\ debounce.mounted
    /\ value # debounce.value
    /\ debounce' = [debounce EXCEPT
          !.value = value,
          !.timers = clearTimeout(@) \cup {setTimeout(value, debounce.delay)},
          !.held = 0,
          !.cancelled = @ \/ debounce.timers # {}]
    /\ UNCHANGED <<store, last, auth, dbconn, followButton, likeButton>>

\* One tick of time with no timer due.
PassTime ==
    /\ debounce.mounted
    /\ debounce.timers # {}
    /\ \A t \in debounce.timers : t.left > 0
    /\ debounce' = [debounce EXCEPT
          !.timers = { [t EXCEPT !.left = @ - 1] : t \in @ },
          !.held = IF @ < MaxDelay THEN @ + 1 ELSE @]
    /\ UNCHANGED <<store, last, auth, dbconn, followButton, likeButton>>

\* A due timer's callback: setDebounced(value).  The render that follows has
\* the same value and delay, so the effect does not run again.
TimerFires ==
    /\ debounce.mounted
    /\ \E t \in debounce.timers :
          /\ t.left = 0
          /\ debounce' = [debounce EXCEPT !.debounced = t.value,
                                          !.timers = @ \ {t}]
    /\ UNCHANGED <<store, last, auth, dbconn, followButton, likeButton>>

NextDebounce ==
    \/ \E value \in Inputs, delay \in Delays : MountDebounce(value, delay)
    \/ \E value \in Inputs : SetValue(value)
    \/ PassTime
    \/ TimerFires

SpecDebounce == InitEmpty /\ [][NextDebounce]_vars

\* The browser's clock advances and a due timer's callback is run.
SpecDebounceFair ==
    SpecDebounce /\ WF_vars(PassTime) /\ WF_vars(TimerFires)

----------------------------------------------------------------------------
(* Claims *)

\* C1: for distinct users A and B with no edge (A,B), a followUser(A,B) that
\* succeeds makes isFollowing(A,B) true and adds exactly that edge; an
\* unfollowUser(A,B) right after it returns true, makes isFollowing(A,B)
\* false again and leaves the follow edges exactly as they were before the
\* follow.
C1_FollowUnfollowRoundTrip ==
    /\ ( /\ last.op = "followUser"
         /\ last.a # last.b
         /\ last.ok
         /\ CopiesIn(Edge(last.a, last.b), last.pre) = 0 )
       => /\ isFollowing(last.a, last.b)
          /\ follows = last.pre (+) SetToBag({Edge(last.a, last.b)})
    /\ ( /\ last.op = "unfollowUser"
         /\ last.a # last.b
         /\ last.afterFollow
         /\ CopiesIn(Edge(last.a, last.b), last.pre) = 0 )
       => /\ last.ret
          /\ ~isFollowing(last.a, last.b)
          /\ follows = last.pre

C1_Witness ==
    /\ last.op = "unfollowUser"
    /\ last.a # last.b
    /\ last.afterFollow
    /\ last.ret
    /\ CopiesIn(Edge(last.a, last.b), last.pre) = 0
    /\ BagCardinality(follows) >= 1

\* C2: a follow request by A for B while the edge (A,B) exists is answered
\* 400 "Already following this user" and exactly one (A,B) edge remains.
C2_DuplicateFollowIsConflict ==
    ( /\ last.op = "POST follow"
      /\ isAuthenticated(last.sess)
      /\ last.sess # last.id
      /\ last.existed >= 1 )
    => /\ last.status = 400
       /\ last.message = "Already following this user"
       /\ CopiesIn(Edge(last.sess, last.id), follows) = 1

\* C3: no follow edge joins a user to themselves, and a follow request whose
\* target is the session user is answered 400 "Cannot follow yourself"
\* without storage.followUser being called.
C3_NoSelfFollow ==
    /\ \A e \in BagToSet(follows) : e.followerId # e.followingId
    /\ ( /\ last.op = "POST follow"
         /\ isAuthenticated(last.sess)
         /\ last.sess = last.id )
       => /\ last.status = 400
          /\ last.message = "Cannot follow yourself"
          /\ ~last.called

C3_Witness ==
    /\ last.op = "POST follow"
    /\ isAuthenticated(last.sess)
    /\ last.sess = last.id
    /\ last.status = 400
    /\ BagCardinality(follows) >= 1

\* C4: getFeedPosts(V) with a limit that covers all posts returns exactly the
\* posts whose author is V or is followed by V, each once, newest first.
C4_FeedIsFollowedPlusOwn ==
    ( /\ last.op = "getFeedPosts"
      /\ last.offset = 0
      /\ last.limit >= Cardinality(posts) )
    => LET body == last.body
           want == { p \in posts :
                       p.userId = last.a \/ isFollowing(last.a, p.userId) }
       IN /\ { body[i] : i \in 1..Len(body) } = want
          /\ Len(body) = Cardinality(want)
          /\ \A i, j \in 1..Len(body) :
                i < j => body[i].createdAt >= body[j].createdAt

C4_Witness ==
    /\ last.op = "getFeedPosts"
    /\ last.offset = 0
    /\ last.limit >= Cardinality(posts)
    /\ Len(last.body) = 2
    /\ last.body[1].userId # last.a
    /\ last.body[2].userId = last.a
    /\ isFollowing(last.a, last.a)
    /\ \E p \in posts : p.userId # last.a /\ ~isFollowing(last.a, p.userId)

\* C5: for a user U and post P that U has not liked, a likePost(U,P) that
\* succeeds raises getLikesCount(P) by one and makes isLiked(U,P) true; an
\* unlikePost(U,P) right after it returns getLikesCount(P) and isLiked(U,P)
\* to their earlier values and leaves every other like edge as it was.
C5_LikeUnlikeRoundTrip ==
    /\ ( /\ last.op = "likePost"
         /\ last.ok
         /\ ~isLikedIn(last.pre, last.a, last.postId) )
       => /\ isLiked(last.a, last.postId)
          /\ getLikesCount(last.postId)
                = LikesCountIn(last.pre, last.postId) + 1
          /\ \A e \in BagToSet(likes) \cup BagToSet(last.pre) :
                e # Like(last.a, last.postId)
                   => CopiesIn(e, likes) = CopiesIn(e, last.pre)
    /\ ( /\ last.op = "unlikePost"
         /\ last.afterLike
         /\ ~isLikedIn(last.pre, last.a, last.postId) )
       => /\ last.ret
          /\ getLikesCount(last.postId) = LikesCountIn(last.pre, last.postId)
          /\ isLiked(last.a, last.postId)
                = isLikedIn(last.pre, last.a, last.postId)
          /\ \A e \in BagToSet(likes) \cup BagToSet(last.pre) :
                CopiesIn(e, likes) = CopiesIn(e, last.pre)

C5_Witness ==
    /\ last.op = "unlikePost"
    /\ last.afterLike
    /\ last.ret
    /\ ~isLikedIn(last.pre, last.a, last.postId)
    /\ getLikesCount(last.postId) >= 1
    /\ \E e \in BagToSet(likes) : e.postId # last.postId

\* C6: a like request by a user for a post that user already likes is
\* answered 400 "Already liked this post" with the like count unchanged, and
\* no (user, post) pair ever has more than one like edge.
C6_DuplicateLikeIsConflict ==
    /\ \A e \in BagToSet(likes) : CopiesIn(e, likes) <= 1
    /\ ( /\ last.op = "POST like"
         /\ isAuthenticated(last.sess)
         /\ last.existed >= 1 )
       => /\ last.status = 400
          /\ last.message = "Already liked this post"
          /\ last.same

\* C7: a DELETE of a post or comment by an authenticated user who is not
\* its author is answered 404 and leaves posts, likes and comments as they
\* were.
C7_DeleteByNonAuthorIs404 ==
    ( /\ last.op \in {"DELETE post", "DELETE comment"}
      /\ isAuthenticated(last.sess)
      /\ last.author # None
      /\ last.author # last.sess )
    => /\ last.status = 404
       /\ last.same

\* C8: a PUT of a post with a well-formed body by an authenticated user who
\* is not its author is answered 404 and changes nothing; a post's author
\* never changes, and its content and imageUrl differ from what it was
\* created with only after an update by its author.
C8_UpdateOnlyByAuthor ==
    /\ ( /\ last.op = "PUT post"
         /\ isAuthenticated(last.sess)
         /\ last.valid
         /\ last.author # None
         /\ last.author # last.sess )
       => /\ last.status = 404
          /\ last.same
    /\ \A p \in posts :
          /\ p.userId = p.userId0
          /\ p.editedBy \subseteq {p.userId}
          /\ (p.content # p.content0 \/ p.imageUrl # p.imageUrl0)
                => p.editedBy = {p.userId}

\* C9: when two identical follow requests, or two identical like requests,
\* for an existing target overlap and both have been answered, at most one
\* edge for the pair exists and at least one of the two answers is the 400
\* Conflict ("Already following this user" / "Already liked this post").
C9_RaceSurfacesConflict ==
    \A q1, q2 \in inflight :
       ( /\ q1.rid # q2.rid
         /\ q1.pc = "done" /\ q2.pc = "done"
         /\ q2.rid \in q1.with
         /\ q1.kind = q2.kind /\ q1.sess = q2.sess
         /\ q1.id = q2.id /\ q1.param = q2.param
         /\ q1.kind = "follow" => q1.sess # q1.id
         /\ q1.found /\ q2.found )
       => /\ q1.kind = "follow"
             => /\ CopiesIn(Edge(q1.sess, q1.id), follows) <= 1
                /\ \E q \in {q1, q2} :
                      /\ q.status = 400
                      /\ q.message = "Already following this user"
          /\ q1.kind = "like"
             => /\ \A e \in BagToSet(likes) : CopiesIn(e, likes) <= 1
                /\ \E q \in {q1, q2} :
                      /\ q.status = 400
                      /\ q.message = "Already liked this post"

\* C10: under any interleaving of the steps of signup and profile-edit
\* requests, no two user records share an email and no two share a username.
C10_EmailAndUsernameUnique ==
    \A u, v \in users :
       u.id # v.id => u.email # v.email /\ u.username # v.username

C10_Witness ==
    /\ Cardinality(users) >= 2
    /\ last.op = "PUT me"
    /\ last.status = 500

\* C11: a signup or profile edit that passed its existence checks and whose
\* write is then rejected, because a concurrent request took the email or
\* username first, is answered 400 with "Username is already taken" or "An
\* account with that email already exists".
C11_LostRaceIsConflict ==
    ( /\ last.op \in {"POST signup", "PUT me"}
      /\ last.pc \in {"upsertUser", "updateUser"}
      /\ last.status \notin {200, 201} )
    => /\ last.status = 400
       /\ last.message \in {"Username is already taken",
                            "An account with that email already exists"}

\* C12 (as stated): a search whose trimmed query has fewer than 2 characters
\* yields the empty list and queries nothing, in storage.searchUsers, in
\* GET /api/users/search and on the Explore page.
C12_ShortSearchIsEmptyList ==
    ( /\ last.op \in {"searchUsers", "GET search", "Explore"}
      /\ Len(Trim(last.query)) < 2 )
    => /\ ~last.queried
       /\ last.rows = <<>>
       /\ last.op = "searchUsers" => ~last.threw
       /\ last.op = "GET search" => last.status = 200
       /\ last.op = "Explore" => ~last.requested

\* C12 (amended): storage.searchUsers returns [] without querying the store
\* when the query is empty after trimming; GET /api/users/search answers 400
\* without querying the store when the trimmed query has fewer than 2
\* characters; the Explore page sends no request for such a term.
C12_BlankSearchSkipsStore ==
    /\ ( last.op = "searchUsers" /\ Trim(last.query) = <<>> )
       => ~last.queried /\ ~last.threw /\ last.rows = <<>>
    /\ ( last.op = "GET search" /\ Len(Trim(last.query)) < 2 )
       => ~last.queried /\ last.status = 400
    /\ ( last.op = "Explore" /\ Len(Trim(last.query)) < 2 )
       => ~last.queried /\ ~last.requested

C12_Witness ==
    /\ last.op = "searchUsers"
    /\ Len(last.query) = 2
    /\ Trim(last.query) = <<>>
    /\ last.rows = <<>>
    /\ Cardinality(users) >= 2

\* C13: for a non-blank query q and viewer V, searchUsers(q, V) returns only
\* users other than V that carry the trimmed q, taken literally and without
\* regard to case, in username, first name or last name, and returns all of
\* them when they are fewer than the limit.
C13_SearchIsLiteralSubstring ==
    ( last.op = "searchUsers" /\ Trim(last.query) # <<>> )
    => LET wanted == { u \in users : /\ CarriesText(Trim(last.query), u)
                                     /\ u.id # last.a }
           got == { last.rows[i].id : i \in 1..Len(last.rows) }
       IN /\ ~last.threw
          /\ got \subseteq { u.id : u \in wanted }
          /\ Cardinality(wanted) < Min(Max(OrElse(last.limit, 10), 1), 25)
                => got = { u.id : u \in wanted }

\* C14: searchUsers returns at most min(max(limit, 1), 25) rows for every
\* integer limit, and at most 10 when the limit is omitted.
C14_SearchLimitIsClamped ==
    last.op = "searchUsers"
    => /\ last.limit # {}
          => Len(last.rows) <= Min(Max(OrElse(last.limit, 0), 1), 25)
       /\ last.limit = {} => Len(last.rows) <= 10

C14_Witness ==
    /\ last.op = "searchUsers"
    /\ last.limit = {26}
    /\ Len(last.rows) = 25
    /\ Cardinality(users) > 25

\* C15: every read view reports counts equal to the number of matching rows
\* of the store at the time of the read: likes and comments of each post in
\* post detail, global feed, personalized feed and author list; followers,
\* following and posts of a profile; followers of each search result.
C15_DerivedCountsExact ==
    /\ last.op \in PostViewOps =>
         \A i \in 1..Len(last.rows) :
            /\ last.rows[i].likesCount =
                 BagCardinality(likes) -
                 BagCardinality(BagWithout(likes,
                    [e \in BagToSet(likes) |->
                        e.postId = last.rows[i].id]))
            /\ last.rows[i].commentsCount =
                 Cardinality(comments) -
                 Cardinality({ c \in comments :
                                 c.postId # last.rows[i].id })
    /\ last.op = "getUserProfile" =>
         \A v \in last.found :
            /\ v.followersCount = BagCardinality(follows) -
                 BagCardinality(BagWithout(follows,
                    [e \in BagToSet(follows) |-> e.followingId = v.id]))
            /\ v.followingCount = BagCardinality(follows) -
                 BagCardinality(BagWithout(follows,
                    [e \in BagToSet(follows) |-> e.followerId = v.id]))
            /\ v.postsCount = Cardinality(posts) -
                 Cardinality({ p \in posts : p.userId # v.id })
    /\ last.op = "searchUsers" =>
         \A i \in 1..Len(last.rows) :
            last.rows[i].followersCount = BagCardinality(follows) -
                 BagCardinality(BagWithout(follows,
                    [e \in BagToSet(follows) |->
                        e.followingId = last.rows[i].id]))

\* A feed of two posts is read where one post has two likes and a comment
\* and the other has none, after a post was deleted.
C15_Witness ==
    /\ last.op = "getPosts"
    /\ nextPost > Cardinality(posts)
    /\ \E i \in 1..Len(last.rows) :
          last.rows[i].likesCount = 2 /\ last.rows[i].commentsCount = 1

\* C16: in every post view (detail, global feed, personalized feed, author
\* list) isLiked is true exactly when the viewer has a like on the post, and
\* is false for an absent viewer; a like or unlike by another user leaves
\* the isLiked a viewer is shown unchanged, and one that takes effect moves
\* the likesCount every viewer is shown by one.
C16_IsLikedIsViewerRelative ==
    last.op \in PostViewOps =>
       /\ \A i \in 1..Len(last.rows) :
             /\ last.rows[i].isLiked =
                   (/\ last.a # None
                    /\ CopiesIn(Like(last.a, last.rows[i].id), likes) >= 1)
             /\ last.a = None => ~last.rows[i].isLiked
       /\ \A k \in last.after : \A s \in k.seen :
             \A i \in 1..Len(last.rows), j \in 1..Len(s.rows) :
                last.rows[i].id = s.rows[j].id =>
                   /\ (s.a = last.a /\ k.a # last.a) =>
                         last.rows[i].isLiked = s.rows[j].isLiked
                   /\ (k.postId = last.rows[i].id /\ k.had # k.on) =>
                         last.rows[i].likesCount =
                            s.rows[j].likesCount + (IF k.on THEN 1 ELSE -1)

\* A viewer who likes a post reads it, another user likes it too, and the
\* viewer reads it again.
C16_Witness ==
    /\ last.op \in PostViewOps
    /\ last.a # None
    /\ \E k \in last.after : \E s \in k.seen :
          /\ s.a = last.a /\ k.a # last.a /\ k.on /\ ~k.had
          /\ \E i \in 1..Len(last.rows), j \in 1..Len(s.rows) :
                /\ last.rows[i].id = k.postId
                /\ s.rows[j].id = k.postId
                /\ last.rows[i].isLiked

\* C17: getSuggestedUsers(V, limit) returns a list that leaves out V and
\* everyone V follows, holds at most limit users (5 when no limit is given),
\* newest account first, and holds every eligible user when these are fewer
\* than the limit; so a user V has just followed is not in it, and a user V
\* has just unfollowed is in it again when the eligible users fit the limit.
C17_SuggestionsExcludeSelfAndFollowed ==
    last.op = "getSuggestedUsers" =>
       LET ids == { last.rows[i].id : i \in 1..Len(last.rows) }
           eligible == { u.id : u \in { x \in users :
                            /\ x.id # last.a
                            /\ CopiesIn(Edge(last.a, x.id), follows) = 0 } }
           cap == OrElse(last.limit, 5)
       IN /\ ~last.threw
          /\ ids \subseteq eligible
          /\ Len(last.rows) <= cap
          /\ \A i \in 1..Len(last.rows), j \in 1..Len(last.rows) :
                i < j => /\ last.rows[i].createdAt >= last.rows[j].createdAt
                         /\ last.rows[i].id # last.rows[j].id
          /\ Cardinality(eligible) <= cap => ids = eligible
          /\ \A k \in last.after :
                (k.a = last.a /\ k.done) =>
                   IF k.op = "followUser" THEN k.b \notin ids
                   ELSE (k.b \in ExistingIds /\ Cardinality(eligible) <= cap)
                           => k.b \in ids

\* C18: GET /api/users/:identifier answers with the profile of the user
\* whose username is the identifier, else of the user whose id it is, and
\* with 404 when there is neither; isFollowing in the profile is false for
\* an absent viewer and for the owner, and otherwise tells whether the
\* viewer follows the owner.
C18_ProfileByUsernameThenId ==
    last.op = "GET profile" =>
       LET named == { u.id : u \in { x \in users :
                                       x.username = last.identifier } }
           ided == { u.id : u \in { x \in users :
                                      IdText(x.id) = last.identifier } }
           owner == IF named # {} THEN named ELSE ided
       IN IF owner = {} THEN last.status = 404
          ELSE /\ last.status = 200
               /\ { v.id : v \in last.body } = owner
               /\ \A v \in last.body :
                     v.isFollowing =
                        (/\ last.sess # None
                         /\ last.sess # v.id
                         /\ CopiesIn(Edge(last.sess, v.id), follows) >= 1)

\* C19: while the store does not change, the pages getPosts(L, 0),
\* getPosts(L, L), getPosts(L, 2L), ... are consecutive slices of one
\* newest-first list of all posts: no post is on two pages or twice on one,
\* creation times never increase along the pages, and a page shorter than L
\* comes only when every post has been listed.
C19_PagesPartitionTheFeed ==
    Paging =>
       LET Slots == { <<k, i>> \in (1..Len(last.pages)) \X (1..last.L) :
                         i <= Len(last.pages[k]) }
           At(x) == last.pages[x[1]][x[2]]
           Before(x, y) == x[1] < y[1] \/ (x[1] = y[1] /\ x[2] < y[2])
       IN /\ \A x \in Slots, y \in Slots :
                Before(x, y) => /\ At(x).id # At(y).id
                                /\ At(x).createdAt >= At(y).createdAt
          /\ { At(x).id : x \in Slots } \subseteq PostIds
          /\ Len(last.pages[Len(last.pages)]) < last.L =>
                { At(x).id : x \in Slots } = PostIds

\* C20: a request to a protected route whose session carries no user is
\* answered 401 and leaves users, posts, follows, likes and comments as
\* they were.
C20_NoSessionNoMutation ==
    [][(last'.op # "init" /\ last'.sess = None) =>
          /\ last'.status = 401
          /\ UNCHANGED <<users, posts, follows, likes, comments>>]_vars

\* A request to delete an existing post, made without a session, has been
\* answered 401 while the store holds a post, a like, a comment and a
\* follow.
C20_Witness ==
    /\ last.op = "DELETE post"
    /\ last.sess = None
    /\ last.status = 401
    /\ posts # {} /\ comments # {}
    /\ likes # EmptyBag /\ follows # EmptyBag

\* C21: for edit-post (with a well-formed body), delete-post and
\* delete-comment, a signed-in requester who does not own the existing row
\* is answered 404, and status and message are those the same request gets
\* for an id of the same form that names no row.
C21_NotOwnedLooksAbsent ==
    ( /\ last.op \in {"PUT post", "DELETE post", "DELETE comment"}
      /\ isAuthenticated(last.sess)
      /\ last.op = "PUT post" => last.valid
      /\ last.author # None
      /\ last.author # last.sess )
    => LET absent ==
              CASE last.op = "PUT post" ->
                      UpdatePostRoute(last.sess,
                          IdToPath(NewId(MaxPosts + 1)), 2, "url")
                [] last.op = "DELETE post" ->
                      DeletePostRoute(last.sess,
                          IdToPath(NewId(MaxPosts + 1)))
                [] OTHER ->
                      DeleteCommentRoute(last.sess,
                          IdToPath(NewId(MaxComments + 1)))
       IN /\ last.same
          /\ last.status = 404
          /\ absent.status = last.status
          /\ absent.message = last.message

\* C22: every stored post and comment has content of 1 to 500 characters,
\* and a create-post, edit-post or add-comment request of a signed-in user
\* whose content is empty or longer than 500 characters is answered 400
\* and leaves posts, likes and comments as they were.
C22_ContentWithinBounds ==
    /\ \A p \in posts : p.content >= 1 /\ p.content <= 500
    /\ \A c \in comments : c.content >= 1 /\ c.content <= 500
    /\ ( /\ last.op \in {"POST posts", "PUT post", "POST comment"}
         /\ ~last.valid )
       => last.status = 400 /\ last.same

\* An edit with 501 characters has been refused while a post of 500
\* characters and a comment are stored.
C22_Witness ==
    /\ last.op = "PUT post" /\ ~last.valid /\ last.status = 400
    /\ \E p \in posts : p.content = 500
    /\ comments # {}

\* C23: a login that is answered with success has bound the session to an
\* account whose password is the one the request supplied.
C23_LoginNeedsThePassword ==
    (last.op = "POST login" /\ last.status = 200) =>
       [id |-> session, password |-> last.password] \in secrets

\* C24: a signup or login that succeeds leaves the session bound to that
\* user, a logout leaves it bound to nobody, and a protected request acts
\* as the bound user or is answered 401 when there is none; a login that
\* fails with 400 or 404 does not change the binding, and the binding
\* changes only by a successful signup or login or by a logout.
C24_SessionLifecycle ==
    /\ [](/\ (last.op = "POST signup" /\ last.status = 201) =>
                { u.id : u \in getUserByEmail(last.email) } = {session}
          /\ (last.op = "POST login" /\ last.status = 200) =>
                \E u \in users :
                   /\ u.id = session
                   /\ last.identifier \in {u.email, u.username}
          /\ (last.op = "POST logout" /\ last.status = 200) =>
                session = None
          /\ last.op = "GET auth user" =>
                IF session = None THEN last.status = 401
                ELSE last.status = 200 /\ last.body = {session})
    /\ [][/\ (last'.op = "POST login" /\ last'.status \in {400, 404}) =>
                session' = session
          /\ session' # session =>
                \/ last'.op = "POST signup" /\ last'.status = 201
                \/ last'.op = "POST login" /\ last'.status = 200
                \/ last'.op = "POST logout"]_vars

\* After a logout a protected request has been answered 401 although
\* accounts exist.
C24_Witness ==
    /\ last.op = "GET auth user"
    /\ last.status = 401
    /\ Cardinality(users) = 2
    /\ session = None

\* C25: the two ends of every follow edge are existing users, and every
\* like edge and every comment is on an existing post.
C25_ReferencesExist ==
    /\ \A e \in BagToSet(follows) :
          e.followerId \in ExistingIds /\ e.followingId \in ExistingIds
    /\ \A l \in BagToSet(likes) : \E p \in posts : p.id = l.postId
    /\ \A c \in comments : \E p \in posts : p.id = c.postId

\* C26: GET /api/users/<id> and GET /api/users/<id>/posts with the id of an
\* existing user answer 200 with that user's profile and that user's
\* posts, whatever usernames other users have chosen.
C26_LookupByIdIsStable ==
    last.op \in {"GET profile", "GET user posts"} =>
       \A u \in users :
          IdText(u.id) = last.identifier =>
             /\ last.status = 200
             /\ { v.id : v \in last.body } = {u.id}
             /\ last.op = "GET user posts" =>
                   \A i \in 1..Len(last.rows) : last.rows[i].userId = u.id

\* C27: ensureDatabaseReady opens the connection at most once.  Of the
\* invocations of mongoose.connect at most one has not failed, whatever the
\* number of calls and however they overlap; a call that follows a
\* successful one returns without connecting; a failed attempt leaves
\* isConnected false as long as no attempt has succeeded, and is rethrown.
C27_ConnectAtMostOnce ==
    /\ connects.started - connects.failed <= 1
    /\ (\E c \in Callers : calls[c] = "skipped") => isConnected
    /\ (\A c \in Callers : calls[c] \in {"idle", "threw", "connecting"}) =>
          ~isConnected

\* C28: FollowButton is in sync after a failed request.  The request of a
\* click is DELETE when the state before the click was following and POST
\* otherwise; after a failed request the displayed isFollowing and the value
\* last reported through onFollowChange are the ones from before the click;
\* a request is never started while another is pending.
C28_FollowButtonRestores ==
    followButton.mounted =>
       /\ followButton.outcome # "none" =>
             followButton.sent = IF followButton.preClick THEN "DELETE"
                                 ELSE "POST"
       /\ followButton.outcome = "failed" =>
             /\ followButton.isFollowing = followButton.preClick
             /\ followButton.reported \subseteq {followButton.preClick}
       /\ followButton.isPending <=> followButton.outcome = "pending"

\* C29: LikeButton's displayed state changes only on server confirmation.
\* While a request is pending and after a failed one isLiked and likesCount
\* are what they were at the click; after a confirmed one isLiked is flipped
\* and likesCount has moved by exactly 1 in the matching direction; a
\* request is pending exactly while the button is disabled; with initial
\* props consistent with the server likesCount is never below 0.
C29_LikeChangesOnConfirmation ==
    likeButton.mounted =>
       LET b == likeButton IN
       /\ b.outcome \in {"none", "pending", "failed"} =>
             /\ b.isLiked = b.before.isLiked
             /\ b.likesCount = b.before.likesCount
       /\ b.outcome = "succeeded" =>
             /\ b.isLiked = ~b.before.isLiked
             /\ b.likesCount = b.before.likesCount
                               + (IF b.before.isLiked THEN -1 ELSE 1)
       /\ b.isPending <=> b.outcome = "pending"
       /\ b.consistent => b.likesCount >= 0

C29_Witness ==
    /\ likeButton.mounted
    /\ likeButton.consistent
    /\ likeButton.clicks = MaxClicks
    /\ likeButton.outcome = "succeeded"
    /\ likeButton.likesCount = 0

\* C30: useDebouncedValue.  The returned value changes only to the current
\* input, and only when that input has been the input for a full delay, so a
\* value replaced within the delay is never returned; and if the input
\* stops changing the returned value eventually equals the last input.
C30_DebouncedFollowsSettledInput ==
    /\ [][(debounce.mounted /\ debounce'.debounced # debounce.debounced) =>
             /\ debounce'.debounced = debounce.value
             /\ debounce.held >= debounce.delay]_vars
    /\ \A v \in Inputs :
          <>[](debounce.mounted /\ debounce.value = v) =>
             <>[](debounce.mounted /\ debounce.debounced = v)

C30_Witness ==
    /\ debounce.mounted
    /\ debounce.cancelled
    /\ debounce.timers = {}
    /\ debounce.debounced = debounce.value
    /\ debounce.debounced # debounce.first

====
